---- MODULE Spec2Model ----
(***************************************************************************)
(* NF-e auditor (src/src/lib/audit): the check-digit validators, the       *)
(* access-key check digit and the audit pass auditXml, as state machines.  *)
(*                                                                         *)
(* A text is a sequence of one-character strings.  Money is an integer     *)
(* number of mills (thousandths of the currency unit): 0.01 is 10 mills.   *)
(***************************************************************************)
EXTENDS Integers, Sequences, FiniteSets, TLC

VARIABLES
  keyIn, keyOut, keyPc,                        \* calcNfeKeyDV: argument, result
  cpfIn, cpfOut, cpfPc,                        \* isValidCPF: argument, result
  cnpjIn, cnpjOut, cnpjPc, cnpjOrig, cnpjPos,  \* isValidCNPJ: argument, result
  edits,                                       \* characters of the argument replaced so far
  input,                                       \* auditXml: the argument
  pc,                                          \* auditXml: not called, returned or thrown
  out,                                         \* auditXml: the returned report
  deviations,                                  \* fields of the document changed so far
  response,                                    \* POST: the response to the request
  batchFiles, batchRows,                       \* page: the picked files and their rows
  batchLoading, batchProgress,                 \* page: a batch is running, done / total
  bpc,                                         \* runBatch: the await it is suspended at
  arr, rows, done, fileI,                      \* runBatch: its locals arr, rows, done, i
  xmlText, res                                 \* runBatch: the locals of the loop body

keyVars == <<keyIn, keyOut, keyPc>>
cpfVars == <<cpfIn, cpfOut, cpfPc>>
cnpjVars == <<cnpjIn, cnpjOut, cnpjPc, cnpjOrig, cnpjPos>>
auditVars == <<input, pc, out, deviations>>
routeVars == <<response>>
batchVars ==
  <<batchFiles, batchRows, batchLoading, batchProgress, bpc, arr, rows, done, fileI, xmlText, res>>
vars == <<keyVars, cpfVars, cnpjVars, edits, auditVars, routeVars, batchVars>>

(***************************************************************************)
(* Bounds of the explored input space.                                     *)
(***************************************************************************)
\* Number of characters in which an explored identifier or key text departs
\* from one of the base texts.
MaxEdits == 1

\* Number of fields in which an audited document departs from one of the
\* base documents.
MaxDeviations == 1

\* Number of items (det) of an audited document.
MaxItems == 3

\* Number of files of a batch.
MaxFiles == 3

(***************************************************************************)
(* Characters and JavaScript values.                                       *)
(***************************************************************************)
DigitChars == {"0", "1", "2", "3", "4", "5", "6", "7", "8", "9"}

\* Number(c) for a digit character c
DigitValue ==
  [c \in DigitChars |->
     CASE c = "0" -> 0 [] c = "1" -> 1 [] c = "2" -> 2 [] c = "3" -> 3
       [] c = "4" -> 4 [] c = "5" -> 5 [] c = "6" -> 6 [] c = "7" -> 7
       [] c = "8" -> 8 [] c = "9" -> 9]

IsDigit(c) == c \in DigitChars

\* The characters an edit may put in place of another: the digits and one
\* character that is not a digit.
EditChars == DigitChars \cup {"."}

\* number | null
Null == [isNull |-> TRUE, v |-> 0]
Some(n) == [isNull |-> FALSE, v |-> n]

\* s.replace(/\D/g, '')
StripNonDigits(s) == SelectSeq(s, IsDigit)

\* String(v ?? '').replace(/\D/g, '') of a text
onlyDigits(v) == StripNonDigits(v)

\* /^(\d)\1{n-1}$/.test(s) for a digit string s of n characters
AllSameDigit(s) == Len(s) > 0 /\ \A i \in 1 .. Len(s) : s[i] = s[1]

(***************************************************************************)
(* utils.ts: calcNfeKeyDV                                                  *)
(***************************************************************************)
weights == <<2, 3, 4, 5, 6, 7, 8, 9>>

\* The loop of calcNfeKeyDV: i runs from key43.length - 1 down to 0 (the
\* characters of key43 are key43[1] .. key43[43] here), wIdx cycles 0..7.
RECURSIVE KeyDVLoop(_, _, _, _)
KeyDVLoop(key43, i, sum, wIdx) ==
  IF i >= 0
  THEN KeyDVLoop(key43, i - 1, sum + DigitValue[key43[i + 1]] * weights[wIdx + 1],
                 (wIdx + 1) % Len(weights))
  ELSE sum

\* key43 without the slice of a key of 44 digits.
Key43Of_NoSlice(digits) == digits

\* const key43 = digits.length === 44 ? digits.slice(0, 43) : digits
Key43Of(digits) == IF Len(digits) = 44 THEN SubSeq(digits, 1, 43) ELSE digits

\* The check digit without the fold of 10 and 11 to 0.
FoldDV_Kept(dv) == Some(dv)

\* if (dv === 10 || dv === 11) return 0; return dv
FoldDV(dv) == IF dv = 10 \/ dv = 11 THEN Some(0) ELSE Some(dv)

\* calcNfeKeyDV from `if (key43.length !== 43) return null` on.  The return
\* for a character that is no digit is left out: key43 has digits only.
KeyDVOf(key43) ==
  IF Len(key43) # 43 THEN Null
  ELSE FoldDV(11 - (KeyDVLoop(key43, Len(key43) - 1, 0, 0) % 11))

calcNfeKeyDV(key43or44) == KeyDVOf(Key43Of(StripNonDigits(key43or44)))

(***************************************************************************)
(* parse.ts: isValidCPF, isValidCNPJ                                       *)
(***************************************************************************)
\* mod < 2 ? 0 : 11 - mod
Mod11Digit(sum) == LET mod == sum % 11 IN IF mod < 2 THEN 0 ELSE 11 - mod

\* calc(baseLen): for (i = 0; i < baseLen; i++) sum += cpf[i] * (baseLen + 1 - i)
RECURSIVE CpfCalcLoop(_, _, _, _)
CpfCalcLoop(cpf, baseLen, i, sum) ==
  IF i < baseLen
  THEN CpfCalcLoop(cpf, baseLen, i + 1, sum + DigitValue[cpf[i + 1]] * (baseLen + 1 - i))
  ELSE sum

\* calc(baseLen) with the weights baseLen .. 1.
CpfCalc_FromBaseLen(cpf, baseLen) ==
  LET RECURSIVE Loop(_, _)
      Loop(i, sum) ==
        IF i < baseLen THEN Loop(i + 1, sum + DigitValue[cpf[i + 1]] * (baseLen - i)) ELSE sum
  IN  Mod11Digit(Loop(0, 0))

CpfCalc(cpf, baseLen) == Mod11Digit(CpfCalcLoop(cpf, baseLen, 0, 0))

\* d2: for (i = 0; i < 10; i++) sum += cpf[i] * (11 - i), over the digits as given
RECURSIVE CpfD2Loop(_, _, _)
CpfD2Loop(cpf, i, sum) ==
  IF i < 10 THEN CpfD2Loop(cpf, i + 1, sum + DigitValue[cpf[i + 1]] * (11 - i)) ELSE sum

CpfD2(cpf) == Mod11Digit(CpfD2Loop(cpf, 0, 0))

isValidCPF(cpfRaw) ==
  LET cpf == onlyDigits(cpfRaw)
  IN  IF Len(cpf) # 11 THEN FALSE
      ELSE IF AllSameDigit(cpf) THEN FALSE
      ELSE LET d1 == CpfCalc(cpf, 9)
               d2 == CpfD2(cpf)
           IN  DigitValue[cpf[10]] = d1 /\ DigitValue[cpf[11]] = d2

weights1 == <<5, 4, 3, 2, 9, 8, 7, 6, 5, 4, 3, 2>>
weights2 == <<6, 5, 4, 3, 2, 9, 8, 7, 6, 5, 4, 3, 2>>

\* String(d1) for a check digit d1
DigitChar(d) == CHOOSE c \in DigitChars : DigitValue[c] = d

\* calcDigit(base, weights)
RECURSIVE CnpjCalcLoop(_, _, _, _)
CnpjCalcLoop(base, ws, i, sum) ==
  IF i < Len(ws)
  THEN CnpjCalcLoop(base, ws, i + 1, sum + DigitValue[base[i + 1]] * ws[i + 1])
  ELSE sum

calcDigit(base, ws) == Mod11Digit(CnpjCalcLoop(base, ws, 0, 0))

\* isValidCNPJ comparing the first check digit only.
isValidCNPJ_FirstOnly(cnpjRaw) ==
  LET cnpj == onlyDigits(cnpjRaw)
  IN  IF Len(cnpj) # 14 THEN FALSE
      ELSE IF AllSameDigit(cnpj) THEN FALSE
      ELSE DigitValue[cnpj[13]] = calcDigit(SubSeq(cnpj, 1, 12), weights1)

\* isValidCNPJ comparing the second check digit only.
isValidCNPJ_SecondOnly(cnpjRaw) ==
  LET cnpj == onlyDigits(cnpjRaw)
  IN  IF Len(cnpj) # 14 THEN FALSE
      ELSE IF AllSameDigit(cnpj) THEN FALSE
      ELSE LET base12 == SubSeq(cnpj, 1, 12)
               base13 == Append(base12, DigitChar(calcDigit(base12, weights1)))
           IN  DigitValue[cnpj[14]] = calcDigit(base13, weights2)

isValidCNPJ(cnpjRaw) ==
  LET cnpj == onlyDigits(cnpjRaw)
  IN  IF Len(cnpj) # 14 THEN FALSE
      ELSE IF AllSameDigit(cnpj) THEN FALSE
      ELSE LET base12 == SubSeq(cnpj, 1, 12)
               d1 == calcDigit(base12, weights1)
               base13 == Append(base12, DigitChar(d1))
               d2 == calcDigit(base13, weights2)
           IN  DigitValue[cnpj[13]] = d1 /\ DigitValue[cnpj[14]] = d2

(***************************************************************************)
(* calcNfeKeyDV applied to bounded inputs.                                 *)
(***************************************************************************)
\* A 44-digit access key, its first 43 and first 40 digits, and 45 digits.
KeyBase44 ==
  <<"0", "7", "4", "1", "8", "5", "2", "9", "6", "3", "0", "7", "4", "1", "8", "5", "2", "9", "6", "3", "0", "7", "4", "1", "8", "5", "2", "9", "6", "3", "0", "7", "4", "1", "8", "5", "2", "9", "6", "3", "0", "7", "4", "5">>
KeyBase43 == SubSeq(KeyBase44, 1, 43)
KeyBase40 == SubSeq(KeyBase44, 1, 40)
KeyBase45 == Append(KeyBase44, "1")

KeyBases == {KeyBase44, KeyBase43, KeyBase40, KeyBase45}

KeyIdle == keyIn = <<>> /\ keyOut = Null /\ keyPc = "idle"

KeyInit == keyIn \in KeyBases /\ keyOut = Null /\ keyPc = "input"

\* The caller's text: one more character of the argument is another one.
KeyEdit ==
  /\ keyPc = "input"
  /\ edits < MaxEdits
  /\ \E i \in 1 .. Len(keyIn) : \E c \in EditChars \ {keyIn[i]} :
       keyIn' = [keyIn EXCEPT ![i] = c]
  /\ edits' = edits + 1
  /\ UNCHANGED <<keyOut, keyPc>>
  /\ UNCHANGED <<cpfVars, cnpjVars, auditVars, routeVars, batchVars>>

KeyCompute ==
  /\ keyPc = "input"
  /\ keyOut' = calcNfeKeyDV(keyIn)
  /\ keyPc' = "computed"
  /\ UNCHANGED <<keyIn, edits>>
  /\ UNCHANGED <<cpfVars, cnpjVars, auditVars, routeVars, batchVars>>

(***************************************************************************)
(* isValidCPF applied to bounded inputs.                                   *)
(***************************************************************************)
\* 529.982.247-25 and 111.444.777-35 (valid), eleven zeros, the first with
\* its punctuation, with one digit less and with one digit more.
CpfBaseA == <<"5", "2", "9", "9", "8", "2", "2", "4", "7", "2", "5">>
CpfBaseB == <<"1", "1", "1", "4", "4", "4", "7", "7", "7", "3", "5">>
CpfBaseZero == [i \in 1 .. 11 |-> "0"]
CpfBasePunct == <<"5", "2", "9", ".", "9", "8", "2", ".", "2", "4", "7", "-", "2", "5">>

CpfBases ==
  {CpfBaseA, CpfBaseB, CpfBaseZero, CpfBasePunct,
   SubSeq(CpfBaseA, 1, 10), Append(CpfBaseA, "0")}

CpfIdle == cpfIn = <<>> /\ cpfOut = FALSE /\ cpfPc = "idle"

CpfInit == cpfIn \in CpfBases /\ cpfOut = FALSE /\ cpfPc = "input"

CpfEdit ==
  /\ cpfPc = "input"
  /\ edits < MaxEdits
  /\ \E i \in 1 .. Len(cpfIn) : \E c \in EditChars \ {cpfIn[i]} :
       cpfIn' = [cpfIn EXCEPT ![i] = c]
  /\ edits' = edits + 1
  /\ UNCHANGED <<cpfOut, cpfPc>>
  /\ UNCHANGED <<keyVars, cnpjVars, auditVars, routeVars, batchVars>>

CpfValidate ==
  /\ cpfPc = "input"
  /\ cpfOut' = isValidCPF(cpfIn)
  /\ cpfPc' = "checked"
  /\ UNCHANGED <<cpfIn, edits>>
  /\ UNCHANGED <<keyVars, cnpjVars, auditVars, routeVars, batchVars>>

(***************************************************************************)
(* isValidCNPJ applied to bounded inputs, and to an accepted identifier    *)
(* with one of its first 12 digits replaced.                               *)
(***************************************************************************)
\* 11.222.333/0001-81 and 11.122.333/0001-00 (valid), fourteen zeros, the
\* first with its punctuation, with one digit less and with one digit more.
CnpjBaseA == <<"1", "1", "2", "2", "2", "3", "3", "3", "0", "0", "0", "1", "8", "1">>
CnpjBaseB == <<"1", "1", "1", "2", "2", "3", "3", "3", "0", "0", "0", "1", "0", "0">>
CnpjBaseZero == [i \in 1 .. 14 |-> "0"]
CnpjBasePunct == <<"1", "1", ".", "2", "2", "2", ".", "3", "3", "3", "/", "0", "0", "0", "1", "-", "8", "1">>

CnpjBases ==
  {CnpjBaseA, CnpjBaseB, CnpjBaseZero, CnpjBasePunct,
   SubSeq(CnpjBaseA, 1, 13), Append(CnpjBaseA, "0")}

CnpjIdle ==
  cnpjIn = <<>> /\ cnpjOut = FALSE /\ cnpjPc = "idle" /\ cnpjOrig = <<>> /\ cnpjPos = 0

CnpjInit ==
  cnpjIn \in CnpjBases /\ cnpjOut = FALSE /\ cnpjPc = "input"
  /\ cnpjOrig = <<>> /\ cnpjPos = 0

CnpjEdit ==
  /\ cnpjPc = "input"
  /\ edits < MaxEdits
  /\ \E i \in 1 .. Len(cnpjIn) : \E c \in EditChars \ {cnpjIn[i]} :
       cnpjIn' = [cnpjIn EXCEPT ![i] = c]
  /\ edits' = edits + 1
  /\ UNCHANGED <<cnpjOut, cnpjPc, cnpjOrig, cnpjPos>>
  /\ UNCHANGED <<keyVars, cpfVars, auditVars, routeVars, batchVars>>

CnpjValidate ==
  /\ cnpjPc = "input"
  /\ cnpjOut' = isValidCNPJ(cnpjIn)
  /\ cnpjPc' = "checked"
  /\ UNCHANGED <<cnpjIn, cnpjOrig, cnpjPos, edits>>
  /\ UNCHANGED <<keyVars, cpfVars, auditVars, routeVars, batchVars>>

\* The validator applied to an accepted, unpunctuated 14-digit identifier in
\* which digit pos (one of the 12 that are not check digits) is replaced by d.
CnpjCorrupt ==
  /\ cnpjPc = "checked"
  /\ cnpjOut
  /\ Len(cnpjIn) = 14
  /\ \E pos \in 1 .. 12 : \E d \in DigitChars \ {cnpjIn[pos]} :
       /\ cnpjOrig' = cnpjIn
       /\ cnpjPos' = pos
       /\ cnpjIn' = [cnpjIn EXCEPT ![pos] = d]
       /\ cnpjOut' = isValidCNPJ(cnpjIn')
       /\ cnpjPc' = "corrupted"
  /\ UNCHANGED edits
  /\ UNCHANGED <<keyVars, cpfVars, auditVars, routeVars, batchVars>>

(***************************************************************************)
(* The tree XMLParser.parse returns: a node is undefined, a number (s is   *)
(* its String()), a string, an object (kids: its properties) or an array.  *)
(***************************************************************************)
NoKids == <<>>
Undef == [t |-> "undef", s |-> <<>>, kids |-> NoKids, items |-> <<>>]
Num(s) == [t |-> "num", s |-> s, kids |-> NoKids, items |-> <<>>]
Str(s) == [t |-> "str", s |-> s, kids |-> NoKids, items |-> <<>>]
Obj(kids) == [t |-> "obj", s |-> <<>>, kids |-> kids, items |-> <<>>]
Arr(items) == [t |-> "arr", s |-> <<>>, kids |-> NoKids, items |-> items]

IsObject(n) == n.t \in {"obj", "arr"}

\* Boolean(n): undefined, '', 0 are falsy
Truthy(n) ==
  CASE n.t = "undef" -> FALSE
    [] n.t = "str" -> n.s # <<>>
    [] n.t = "num" -> \E i \in 1 .. Len(n.s) : n.s[i] \in DigitChars \ {"0"}
    [] OTHER -> TRUE

\* n[key] of a value that is not undefined: a primitive has none of the keys
Prop(n, key) ==
  IF n.t = "obj" /\ key \in DOMAIN n.kids THEN n.kids[key] ELSE Undef

\* n?.[key]
OptProp(n, key) == IF n.t = "undef" THEN Undef ELSE Prop(n, key)

\* a ?? b
Coalesce(a, b) == IF a.t = "undef" THEN b ELSE a

\* String(n ?? '')
ObjectText == <<"[", "o", "b", "j", "e", "c", "t", " ", "O", "b", "j", "e", "c", "t", "]">>
StringOf(n) == IF IsObject(n) THEN ObjectText ELSE n.s

\* s.trim()
RECURSIVE TrimLeft(_)
TrimLeft(s) == IF s # <<>> /\ Head(s) = " " THEN TrimLeft(Tail(s)) ELSE s
RECURSIVE TrimRight(_)
TrimRight(s) ==
  IF s # <<>> /\ s[Len(s)] = " " THEN TrimRight(SubSeq(s, 1, Len(s) - 1)) ELSE s
Trim(s) == TrimRight(TrimLeft(s))

\* s.toUpperCase(), for the letters the model uses
UpperChar(c) ==
  CASE c = "s" -> "S" [] c = "p" -> "P" [] c = "r" -> "R" [] c = "j" -> "J"
    [] OTHER -> c
ToUpperCase(s) == [i \in 1 .. Len(s) |-> UpperChar(s[i])]

\* s.replace(',', '.'): the first comma only
ReplaceFirstComma(s) ==
  IF \E i \in 1 .. Len(s) : s[i] = ","
  THEN LET i == CHOOSE j \in 1 .. Len(s) :
                  s[j] = "," /\ \A k \in 1 .. j - 1 : s[k] # ","
       IN  [s EXCEPT ![i] = "."]
  ELSE s

\* The value of a digit string.
RECURSIVE DigitsValue(_)
DigitsValue(ds) ==
  IF ds = <<>> THEN 0
  ELSE 10 * DigitsValue(SubSeq(ds, 1, Len(ds) - 1)) + DigitValue[ds[Len(ds)]]

\* Number(s) of a decimal text with at most 3 decimals, in mills: an optional
\* sign, digits, an optional point and digits; anything else is NaN.
NaN == [nan |-> TRUE, v |-> 0]
Finite(neg, abs) == [nan |-> FALSE, v |-> IF neg THEN 0 - abs ELSE abs]

IsDecimal(body) ==
  /\ \A i \in 1 .. Len(body) : body[i] \in DigitChars \cup {"."}
  /\ Cardinality({i \in 1 .. Len(body) : body[i] = "."}) <= 1
  /\ \E i \in 1 .. Len(body) : body[i] \in DigitChars

\* The place of the point of a decimal text; past its end when it has none.
DotIndex(body) ==
  IF \E i \in 1 .. Len(body) : body[i] = "."
  THEN CHOOSE i \in 1 .. Len(body) : body[i] = "."
  ELSE Len(body) + 1

DecimalValue(body, dot, neg) ==
  Finite(neg, 1000 * DigitsValue(SubSeq(body, 1, dot - 1))
              + DigitsValue(SubSeq(SubSeq(body, dot + 1, Len(body)) \o <<"0", "0", "0">>, 1, 3)))

Decimal(body, neg) ==
  IF IsDecimal(body) THEN DecimalValue(body, DotIndex(body), neg) ELSE NaN

NumberOfTrimmed(t) ==
  IF t = <<>> THEN Finite(FALSE, 0)
  ELSE Decimal(IF t[1] \in {"-", "+"} THEN Tail(t) ELSE t, t[1] = "-")

NumberOf(s) == NumberOfTrimmed(Trim(s))

(***************************************************************************)
(* utils.ts                                                                *)
(***************************************************************************)
\* const n = Number(s); return Number.isFinite(n) ? n : null
FiniteOrNull(n) == IF n.nan THEN Null ELSE Some(n.v)

\* toNumber from `if (!s) return null` on
TextToNumber(s) == IF s = <<>> THEN Null ELSE FiniteOrNull(NumberOf(s))

toNumber(v) ==
  IF v.t = "undef" THEN Null
  ELSE IF v.t = "num" THEN Some(NumberOf(v.s).v)
  ELSE TextToNumber(ReplaceFirstComma(Trim(StringOf(v))))

\* Math.round((n + Number.EPSILON) * 100) / 100: to the nearest cent, a half
\* up.
round2(n) == ((n + 5) \div 10) * 10

\* get(obj, path): path.split('.').reduce((acc, key) =>
\*   (acc && key in acc ? acc[key] : undefined), obj).  `key in acc` throws a
\* TypeError when acc is a string or a number.
RECURSIVE GetReduce(_, _, _)
GetReduce(acc, keys, i) ==
  IF i > Len(keys) THEN [threw |-> FALSE, v |-> acc]
  ELSE IF ~Truthy(acc) THEN GetReduce(Undef, keys, i + 1)
  ELSE IF ~IsObject(acc) THEN [threw |-> TRUE, v |-> Undef]
  ELSE GetReduce(Prop(acc, keys[i]), keys, i + 1)

get(obj, path) == GetReduce(obj, path, 1)

asArray(v) ==
  IF v.t = "undef" THEN <<>>
  ELSE IF v.t = "arr" THEN v.items ELSE <<v>>

\* /NFe(\d{44})/ matches s at p
NFeAt(s, p) ==
  /\ p + 46 <= Len(s)
  /\ s[p] = "N" /\ s[p + 1] = "F" /\ s[p + 2] = "e"
  /\ \A k \in p + 3 .. p + 46 : IsDigit(s[k])

NFeStarts(s) == {p \in 1 .. Len(s) : NFeAt(s, p)}

\* The group of the match that starts at p
NFeGroup(s, p) == Str(SubSeq(s, p + 3, p + 46))

\* s.match(/NFe(\d{44})/)?.[1]: the group of the leftmost match
MatchNFe(s, starts) ==
  IF starts = {} THEN Undef
  ELSE NFeGroup(s, CHOOSE q \in starts : \A r \in starts : q <= r)

MatchNFeIn(s) == MatchNFe(s, NFeStarts(s))

extractAccessKeyFromInfNFeId(id) == MatchNFeIn(Trim(StringOf(id)))

safeString(v) == IF v.t = "undef" THEN <<>> ELSE StringOf(v)

(***************************************************************************)
(* parse.ts: parseNFeXml.  The argument is the xml text: whether the       *)
(* parser accepts it, and the tree it returns.                             *)
(***************************************************************************)
\* infNFe = (nfeProc?.NFe ?? raw?.NFe)?.infNFe
InfNFeOf(raw) ==
  OptProp(Coalesce(OptProp(OptProp(raw, "nfeProc"), "NFe"), OptProp(raw, "NFe")), "infNFe")

\* The digits of the protocol key without the truncation.
Slice44_Whole(s) == s

\* s.slice(0, 44)
Slice44(s) == SubSeq(s, 1, IF Len(s) < 44 THEN Len(s) ELSE 44)

\* safeString(raw?.nfeProc?.protNFe?.infProt?.chNFe).replace(/\D/g, '').slice(0, 44)
FromProt(raw) ==
  Str(Slice44(StripNonDigits(safeString(
    OptProp(OptProp(OptProp(OptProp(raw, "nfeProc"), "protNFe"), "infProt"), "chNFe")))))

\* v || undefined
OrUndefined(v) == IF Truthy(v) THEN v ELSE Undef

ParsedNFe(raw, infNFe) ==
  [threw |-> FALSE,
   hasNfeProc |-> Truthy(OptProp(raw, "nfeProc")),
   accessKey |-> OrUndefined(Coalesce(extractAccessKeyFromInfNFeId(OptProp(infNFe, "@_Id")),
                                      FromProt(raw))),
   infNFe |-> infNFe,
   det |-> asArray(OptProp(infNFe, "det")),
   totals |-> OptProp(OptProp(infNFe, "total"), "ICMSTot"),
   ide |-> OptProp(infNFe, "ide"),
   emit |-> OptProp(infNFe, "emit"),
   dest |-> OptProp(infNFe, "dest")]

parseNFeXml(xml) ==
  IF ~xml.wellFormed THEN [threw |-> TRUE] ELSE ParsedNFe(xml.tree, InfNFeOf(xml.tree))

(***************************************************************************)
(* br-ops (src/unnamed/part_000)                                           *)
(***************************************************************************)
isValidCEP(cepRaw) ==
  LET cep == onlyDigits(cepRaw)
  IN  IF Len(cep) # 8 THEN FALSE
      ELSE IF AllSameDigit(cep) THEN FALSE
      ELSE TRUE

\* The leading digit alone, whatever follows it.
first2CFOP_FirstDigit(cfopRaw) ==
  LET s == Trim(safeString(cfopRaw))
  IN  IF Len(s) >= 1 /\ IsDigit(s[1]) THEN SubSeq(s, 1, 1) ELSE <<>>

\* String(cfopRaw ?? '').trim().match(/^(\d{2})/): the two digits, or ''
first2CFOP(cfopRaw) ==
  LET s == Trim(safeString(cfopRaw))
  IN  IF Len(s) >= 2 /\ IsDigit(s[1]) /\ IsDigit(s[2]) THEN SubSeq(s, 1, 2) ELSE <<>>

StartsWith(s, c) == s # <<>> /\ s[1] = c

isInternalCfop(cfopRaw) ==
  LET p2 == first2CFOP(cfopRaw) IN StartsWith(p2, "1") \/ StartsWith(p2, "5")

isInterstateCfop(cfopRaw) ==
  LET p2 == first2CFOP(cfopRaw) IN StartsWith(p2, "2") \/ StartsWith(p2, "6")

(***************************************************************************)
(* index.ts: auditXml.  A finding keeps its severity, code and path, the   *)
(* text of its message with the interpolated numbers apart (args), and the *)
(* index i of the item it is about (-1: none).  Titles and hints, fixed    *)
(* per code, are left out; so is the product code in an item's message.    *)
(***************************************************************************)
Finding(severity, code, message, path, args, index) ==
  [severity |-> severity, code |-> code, message |-> message, path |-> path,
   args |-> args, index |-> index]

\* z.string().min(10, ...)
MinXmlLen == 10

\* InputSchema.safeParse(input): the issues; none on success.
InputSchemaIssues(in) ==
  IF in.t # "obj"
  THEN <<[path |-> <<>>, message |-> "Expected object, received null"]>>
  ELSE IF in.xml.t = "undef"
  THEN <<[path |-> <<"xml">>, message |-> "Required"]>>
  ELSE IF in.xml.t # "str"
  THEN <<[path |-> <<"xml">>, message |-> "Expected string, received number"]>>
  ELSE IF in.xml.len < MinXmlLen
  THEN <<[path |-> <<"xml">>, message |-> "XML vazio ou muito curto"]>>
  ELSE <<>>

\* issue.path?.join('.') without the fallback to 'xml'
IssuePath_Joined(issue) == IF issue.path = <<>> THEN "" ELSE issue.path[1]

\* issue.path?.join('.') || 'xml', for a path of at most one segment
IssuePath(issue) ==
  LET joined == IF issue.path = <<>> THEN "" ELSE issue.path[1]
  IN  IF joined = "" THEN "xml" ELSE joined

InputInvalidFindings(issues) ==
  [k \in 1 .. Len(issues) |->
     Finding("error", "INPUT_INVALID", issues[k].message, IssuePath(issues[k]), <<>>, -1)]

XmlParseErrorFinding ==
  Finding("error", "XML_PARSE_ERROR", "Nao foi possivel ler o XML", "", <<>>, -1)

InfNFeMissingFinding ==
  Finding("error", "INFNFE_MISSING", "Nao encontrei NFe.infNFe no XML.", "NFe.infNFe", <<>>, -1)

\* auditXml without the ITEMS_EMPTY rule.
ItemsEmptyFindings_Never(parsed) == <<>>

ItemsEmptyFindings(parsed) ==
  IF Len(parsed.det) = 0
  THEN <<Finding("error", "ITEMS_EMPTY", "A NF-e nao possui itens (det).",
                 "NFe.infNFe.det", <<>>, -1)>>
  ELSE <<>>

\* if (dvCalc === null) ... else if (dvCalc !== dvIn) ... else ...
DvFindings(dvCalc, dvIn) ==
  IF dvCalc.isNull
  THEN <<Finding("warning", "ACCESS_KEY_DV_UNKNOWN",
                 "Nao foi possivel calcular o digito verificador da chave.",
                 "", <<>>, -1)>>
  ELSE IF dvCalc.v # dvIn
  THEN <<Finding("error", "ACCESS_KEY_DV_MISMATCH",
                 "Informado: ${dvIn}, calculado: ${dvCalc}.",
                 "", <<dvIn, dvCalc.v>>, -1)>>
  ELSE <<Finding("info", "ACCESS_KEY_OK",
                 "Chave de acesso com DV valido.", "", <<>>, -1)>>

\* The rule for the digits of a key, without a finding for a length other than 44.
KeyDigitsFindings_SilentLen(key) ==
  IF Len(key) # 44 THEN <<>>
  ELSE DvFindings(calcNfeKeyDV(key), DigitValue[key[44]])

\* The rule for the digits of a key with the mismatch error for a length
\* other than 44.
KeyDigitsFindings_ShortIsMismatch(key) ==
  IF Len(key) # 44
  THEN <<Finding("error", "ACCESS_KEY_DV_MISMATCH",
                 "Informado: ${dvIn}, calculado: ${dvCalc}.", "", <<Len(key)>>, -1)>>
  ELSE DvFindings(calcNfeKeyDV(key), DigitValue[key[44]])

\* const key = parsed.accessKey.replace(/\D/g, ''); if (key.length !== 44) ... else ...
KeyDigitsFindings(key) ==
  IF Len(key) # 44
  THEN <<Finding("warning", "ACCESS_KEY_LEN",
                 "A chave extraida nao possui 44 digitos (encontrei ${key.length}).",
                 "", <<Len(key)>>, -1)>>
  ELSE DvFindings(calcNfeKeyDV(key), DigitValue[key[44]])

\* ---- Regra: chave de acesso e DV
AccessKeyFindings(parsed) ==
  IF Truthy(parsed.accessKey)
  THEN KeyDigitsFindings(StripNonDigits(parsed.accessKey.s))
  ELSE <<Finding("warning", "ACCESS_KEY_NOT_FOUND",
                 "Nao consegui extrair a chave de acesso", "", <<>>, -1)>>

\* The essential-field rule with a missing recipient block as an error.
EssentialFindings_DestIsError(parsed) ==
  (IF ~Truthy(parsed.ide)
   THEN <<Finding("error", "IDE_MISSING", "Nao encontrei ide dentro de infNFe.",
                  "NFe.infNFe.ide", <<>>, -1)>>
   ELSE <<>>)
  \o (IF ~Truthy(parsed.emit)
      THEN <<Finding("error", "EMIT_MISSING", "Nao encontrei emit dentro de infNFe.",
                     "NFe.infNFe.emit", <<>>, -1)>>
      ELSE <<>>)
  \o (IF ~Truthy(parsed.dest)
      THEN <<Finding("error", "DEST_MISSING", "Nao encontrei dest dentro de infNFe",
                     "NFe.infNFe.dest", <<>>, -1)>>
      ELSE <<>>)

\* ---- Regra: campos essenciais (ide/emit/dest)
EssentialFindings(parsed) ==
  (IF ~Truthy(parsed.ide)
   THEN <<Finding("error", "IDE_MISSING", "Nao encontrei ide dentro de infNFe.",
                  "NFe.infNFe.ide", <<>>, -1)>>
   ELSE <<>>)
  \o (IF ~Truthy(parsed.emit)
      THEN <<Finding("error", "EMIT_MISSING", "Nao encontrei emit dentro de infNFe.",
                     "NFe.infNFe.emit", <<>>, -1)>>
      ELSE <<>>)
  \o (IF ~Truthy(parsed.dest)
      THEN <<Finding("warning", "DEST_MISSING", "Nao encontrei dest dentro de infNFe",
                     "NFe.infNFe.dest", <<>>, -1)>>
      ELSE <<>>)

\* isCnpj ? isValidCNPJ(String(doc)) : isValidCPF(String(doc))
IsCnpjText(doc) == Len(StripNonDigits(StringOf(doc))) = 14
DocOk(doc) ==
  IF IsCnpjText(doc) THEN isValidCNPJ(StringOf(doc)) ELSE isValidCPF(StringOf(doc))

\* ---- Regra: CPF/CNPJ emitente/destinatario
\* The finding about a document that is there: invalid or valid.
DocFinding(isCnpj, ok, severity, badCode, badCnpj, badCpf, badPath, okCode, okCnpj, okCpf) ==
  IF ~ok
  THEN <<Finding(severity, badCode, IF isCnpj THEN badCnpj ELSE badCpf, badPath, <<>>, -1)>>
  ELSE <<Finding("info", okCode, IF isCnpj THEN okCnpj ELSE okCpf, "", <<>>, -1)>>

\* The issuer rule with an invalid identifier as a warning.
EmitDocRule_InvalidIsWarning(emitCnpj) ==
  IF Truthy(emitCnpj)
  THEN DocFinding(IsCnpjText(emitCnpj), DocOk(emitCnpj), "warning", "EMIT_DOC_INVALID",
                  "O CNPJ do emitente parece invalido.", "O CPF do emitente parece invalido.",
                  "NFe.infNFe.emit", "EMIT_DOC_OK",
                  "Documento do emitente (CNPJ) valido.", "Documento do emitente (CPF) valido.")
  ELSE <<Finding("warning", "EMIT_DOC_MISSING", "Nao encontrei CNPJ/CPF no emitente.",
                 "NFe.infNFe.emit.CNPJ", <<>>, -1)>>

EmitDocRule(emitCnpj) ==
  IF Truthy(emitCnpj)
  THEN DocFinding(IsCnpjText(emitCnpj), DocOk(emitCnpj), "error", "EMIT_DOC_INVALID",
                  "O CNPJ do emitente parece invalido.", "O CPF do emitente parece invalido.",
                  "NFe.infNFe.emit", "EMIT_DOC_OK",
                  "Documento do emitente (CNPJ) valido.", "Documento do emitente (CPF) valido.")
  ELSE <<Finding("warning", "EMIT_DOC_MISSING", "Nao encontrei CNPJ/CPF no emitente.",
                 "NFe.infNFe.emit.CNPJ", <<>>, -1)>>

\* const emitCnpj = parsed.emit?.CNPJ ?? parsed.emit?.CPF
EmitDocFindings(parsed) ==
  EmitDocRule(Coalesce(OptProp(parsed.emit, "CNPJ"), OptProp(parsed.emit, "CPF")))

\* The recipient rule with an invalid identifier as an error.
DestDocRule_InvalidIsError(destDoc) ==
  IF Truthy(destDoc)
  THEN DocFinding(IsCnpjText(destDoc), DocOk(destDoc), "error", "DEST_DOC_INVALID",
                  "O CNPJ do destinatario parece invalido.",
                  "O CPF do destinatario parece invalido.",
                  "NFe.infNFe.dest", "DEST_DOC_OK",
                  "Documento do destinatario (CNPJ) valido.",
                  "Documento do destinatario (CPF) valido.")
  ELSE <<Finding("warning", "DEST_DOC_MISSING",
                 "Nao encontrei CNPJ/CPF no destinatario.",
                 "NFe.infNFe.dest.CNPJ", <<>>, -1)>>

DestDocRule(destDoc) ==
  IF Truthy(destDoc)
  THEN DocFinding(IsCnpjText(destDoc), DocOk(destDoc), "warning", "DEST_DOC_INVALID",
                  "O CNPJ do destinatario parece invalido.",
                  "O CPF do destinatario parece invalido.",
                  "NFe.infNFe.dest", "DEST_DOC_OK",
                  "Documento do destinatario (CNPJ) valido.",
                  "Documento do destinatario (CPF) valido.")
  ELSE <<Finding("warning", "DEST_DOC_MISSING",
                 "Nao encontrei CNPJ/CPF no destinatario.",
                 "NFe.infNFe.dest.CNPJ", <<>>, -1)>>

\* const destDoc = parsed.dest?.CNPJ ?? parsed.dest?.CPF; if (parsed.dest) { ... }
DestDocFindings(parsed) ==
  IF Truthy(parsed.dest)
  THEN DestDocRule(Coalesce(OptProp(parsed.dest, "CNPJ"), OptProp(parsed.dest, "CPF")))
  ELSE <<>>

\* String(parsed.emit?.enderEmit?.UF ?? '').trim().toUpperCase()
UfOf(party, ender) ==
  ToUpperCase(Trim(safeString(OptProp(OptProp(party, ender), "UF"))))

\* String(parsed.emit?.enderEmit?.CEP ?? '').trim()
CepOf(party, ender) == Trim(safeString(OptProp(OptProp(party, ender), "CEP")))

\* ---- Regra: UF emit/dest e CEP
AddressRule(hasDest, ufEmit, ufDest, cepEmit, cepDest) ==
  (IF ufEmit = <<>>
   THEN <<Finding("warning", "EMIT_UF_MISSING", "Nao encontrei enderEmit.UF no emitente.",
                  "NFe.infNFe.emit.enderEmit.UF", <<>>, -1)>>
   ELSE <<>>)
  \o (IF hasDest /\ ufDest = <<>>
      THEN <<Finding("warning", "DEST_UF_MISSING",
                     "Nao encontrei enderDest.UF no destinatario.",
                     "NFe.infNFe.dest.enderDest.UF", <<>>, -1)>>
      ELSE <<>>)
  \o (IF cepEmit # <<>> /\ ~isValidCEP(cepEmit)
      THEN <<Finding("warning", "EMIT_CEP_INVALID",
                     "O CEP do emitente parece invalido (esperado 8 digitos).",
                     "NFe.infNFe.emit.enderEmit.CEP", <<>>, -1)>>
      ELSE <<>>)
  \o (IF hasDest /\ cepDest # <<>> /\ ~isValidCEP(cepDest)
      THEN <<Finding("warning", "DEST_CEP_INVALID",
                     "O CEP do destinatario parece invalido (esperado 8 digitos).",
                     "NFe.infNFe.dest.enderDest.CEP", <<>>, -1)>>
      ELSE <<>>)

\* The address rule asking for the recipient's jurisdiction also when there
\* is no recipient block.
AddressFindings_DestUnguarded(parsed) ==
  AddressRule(TRUE,
              UfOf(parsed.emit, "enderEmit"), UfOf(parsed.dest, "enderDest"),
              CepOf(parsed.emit, "enderEmit"), CepOf(parsed.dest, "enderDest"))

AddressFindings(parsed) ==
  AddressRule(Truthy(parsed.dest),
              UfOf(parsed.emit, "enderEmit"), UfOf(parsed.dest, "enderDest"),
              CepOf(parsed.emit, "enderEmit"), CepOf(parsed.dest, "enderDest"))

\* ---- Regra: totais vs itens + composicoes financeiras
NoSums ==
  [threw |-> FALSE, sumVProd |-> 0, sumVDesc |-> 0, sumVFrete |-> 0, sumVSeg |-> 0,
   sumVOutro |-> 0, vProdMissing |-> 0]

\* if (v !== null) sum += v
AddTo(sum, v) == IF v.isNull THEN sum ELSE sum + v.v

\* The gets of the body of the sum loop.
SumGets(d) ==
  <<get(d, <<"prod", "vProd">>), get(d, <<"prod", "vDesc">>), get(d, <<"prod", "vFrete">>),
    get(d, <<"prod", "vSeg">>), get(d, <<"prod", "vOutro">>)>>

\* The sums with the values of one item added, the items without a
\* product value not being counted.
Accumulate_NoMissingCount(acc, vProd, vDesc, vFrete, vSeg, vOutro) ==
  [threw |-> FALSE,
   sumVProd |-> AddTo(acc.sumVProd, vProd),
   sumVDesc |-> AddTo(acc.sumVDesc, vDesc),
   sumVFrete |-> AddTo(acc.sumVFrete, vFrete),
   sumVSeg |-> AddTo(acc.sumVSeg, vSeg),
   sumVOutro |-> AddTo(acc.sumVOutro, vOutro),
   vProdMissing |-> acc.vProdMissing]

\* The sums with the values of one item added.
Accumulate(acc, vProd, vDesc, vFrete, vSeg, vOutro) ==
  [threw |-> FALSE,
   sumVProd |-> AddTo(acc.sumVProd, vProd),
   sumVDesc |-> AddTo(acc.sumVDesc, vDesc),
   sumVFrete |-> AddTo(acc.sumVFrete, vFrete),
   sumVSeg |-> AddTo(acc.sumVSeg, vSeg),
   sumVOutro |-> AddTo(acc.sumVOutro, vOutro),
   vProdMissing |-> acc.vProdMissing + (IF vProd.isNull THEN 1 ELSE 0)]

\* for (const d of itens) { ... }: the sums so far; threw when a get throws
RECURSIVE SumLoop(_, _, _), SumStep(_, _, _, _)
SumStep(itens, k, acc, gets) ==
  IF \E j \in 1 .. Len(gets) : gets[j].threw
  THEN [acc EXCEPT !.threw = TRUE]
  ELSE SumLoop(itens, k + 1,
               Accumulate(acc, toNumber(gets[1].v), toNumber(gets[2].v), toNumber(gets[3].v),
                          toNumber(gets[4].v), toNumber(gets[5].v)))

SumLoop(itens, k, acc) ==
  IF k > Len(itens) THEN acc ELSE SumStep(itens, k, acc, SumGets(itens[k]))

\* sumVProd = round2(sumVProd) ...
RoundSums(acc) ==
  [acc EXCEPT !.sumVProd = round2(@), !.sumVDesc = round2(@), !.sumVFrete = round2(@),
              !.sumVSeg = round2(@), !.sumVOutro = round2(@)]

\* const totVProd = toNumber(parsed.totals?.vProd) ...
TotalsOf(parsed) ==
  [defined |-> TRUE,
   vProd |-> toNumber(OptProp(parsed.totals, "vProd")),
   vDesc |-> toNumber(OptProp(parsed.totals, "vDesc")),
   vFrete |-> toNumber(OptProp(parsed.totals, "vFrete")),
   vSeg |-> toNumber(OptProp(parsed.totals, "vSeg")),
   vOutro |-> toNumber(OptProp(parsed.totals, "vOutro")),
   vNF |-> toNumber(OptProp(parsed.totals, "vNF"))]

\* 0.01, in mills
Cent == 10

Abs(n) == IF n < 0 THEN 0 - n ELSE n

\* (n || 0)
OrZero(n) == IF n.isNull THEN 0 ELSE n.v

\* The comparison with an info finding for a match.
SumMismatch_WithOk(code, message, path, tot, sum) ==
  IF ~tot.isNull /\ sum > 0
  THEN IF Abs(round2(sum - tot.v)) > Cent
       THEN <<Finding("warning", code, message, path, <<sum, tot.v, round2(sum - tot.v)>>, -1)>>
       ELSE <<Finding("info", "TOTAL_VFRETE_OK", "Soma bate com o total.", "", <<tot.v>>, -1)>>
  ELSE <<>>

\* The comparison made for an item sum of 0 as well.
SumMismatch_AnySum(code, message, path, tot, sum) ==
  IF ~tot.isNull /\ Abs(round2(sum - tot.v)) > Cent
  THEN <<Finding("warning", code, message, path, <<sum, tot.v, round2(sum - tot.v)>>, -1)>>
  ELSE <<>>

\* if (tot !== null && sum > 0) { diff = round2(sum - tot); if (|diff| > 0.01) ... }
SumMismatch(code, message, path, tot, sum) ==
  IF ~tot.isNull /\ sum > 0 /\ Abs(round2(sum - tot.v)) > Cent
  THEN <<Finding("warning", code, message, path, <<sum, tot.v, round2(sum - tot.v)>>, -1)>>
  ELSE <<>>

\* The comparison with a difference of one cent as a mismatch.
DiffFindings_CentIsMismatch(severity, code, message, path, okCode, okMessage, sum, tot, diff) ==
  IF Abs(diff) >= Cent
  THEN <<Finding(severity, code, message, path, <<sum, tot, diff>>, -1)>>
  ELSE <<Finding("info", okCode, okMessage, "", <<tot>>, -1)>>

\* if (Math.abs(diff) > 0.01) push(mismatch) else push(ok)
DiffFindings(severity, code, message, path, okCode, okMessage, sum, tot, diff) ==
  IF Abs(diff) > Cent
  THEN <<Finding(severity, code, message, path, <<sum, tot, diff>>, -1)>>
  ELSE <<Finding("info", okCode, okMessage, "", <<tot>>, -1)>>

\* if (Math.abs(diff) > 0.01) push(TOTAL_VNF_SUSPECT) else push(TOTAL_VNF_OK)
VnfFindings(expected, totVNF, diff) ==
  IF Abs(diff) > Cent
  THEN <<Finding("warning", "TOTAL_VNF_SUSPECT",
                 "Esperado vNF=${expected}, mas total vNF=${totVNF} (diferenca ${diff}).",
                 "NFe.infNFe.total.ICMSTot.vNF", <<expected, totVNF, diff>>, -1)>>
  ELSE <<Finding("info", "TOTAL_VNF_OK",
                 "vNF parece consistente com a composicao (${expected}).",
                 "", <<expected>>, -1)>>

\* The final-value check with diff = totVNF - expected.
VnfCheck_Reversed(expected, totVNF) == VnfFindings(expected, totVNF, round2(totVNF - expected))

\* const expected = round2(...); const diff = round2(expected - totVNF)
VnfCheck(expected, totVNF) == VnfFindings(expected, totVNF, round2(expected - totVNF))

\* The financial rule that reports the totals as missing whatever the document.
FinancialFindings_AlwaysMissing(parsed, sums, tot) ==
  <<Finding("warning", "TOTALS_MISSING", "Nao encontrei total.ICMSTot no XML.",
            "NFe.infNFe.total.ICMSTot", <<>>, -1)>>

FinancialFindings(parsed, sums, tot) ==
  IF ~Truthy(parsed.totals)
  THEN <<Finding("warning", "TOTALS_MISSING", "Nao encontrei total.ICMSTot no XML.",
                 "NFe.infNFe.total.ICMSTot", <<>>, -1)>>
  ELSE
    (IF sums.vProdMissing > 0
     THEN <<Finding("warning", "ITEM_VPROD_MISSING", "${vProdMissing} item(ns) sem prod.vProd.",
                    "", <<sums.vProdMissing>>, -1)>>
     ELSE <<>>)
    \o (IF ~tot.vProd.isNull
        THEN DiffFindings("error", "TOTAL_VPROD_MISMATCH",
                          "Soma vProd(itens)=${sumVProd} mas total vProd=${totVProd} (diferenca ${diff}).",
                          "NFe.infNFe.total.ICMSTot.vProd",
                          "TOTAL_VPROD_OK", "Soma dos itens bate com o total vProd (${totVProd}).",
                          sums.sumVProd, tot.vProd.v, round2(sums.sumVProd - tot.vProd.v))
        ELSE <<>>)
    \o (IF ~tot.vDesc.isNull /\ sums.sumVDesc > 0
        THEN DiffFindings("warning", "TOTAL_VDESC_MISMATCH",
                          "Soma vDesc(itens)=${sumVDesc} mas total vDesc=${totVDesc} (diferenca ${diff}).",
                          "NFe.infNFe.total.ICMSTot.vDesc",
                          "TOTAL_VDESC_OK",
                          "Soma dos descontos dos itens bate com vDesc (${totVDesc}).",
                          sums.sumVDesc, tot.vDesc.v, round2(sums.sumVDesc - tot.vDesc.v))
        ELSE <<>>)
    \o SumMismatch("TOTAL_VFRETE_MISMATCH",
                   "Soma vFrete(itens)=${sumVFrete} mas total vFrete=${totVFrete} (diferenca ${diff}).",
                   "NFe.infNFe.total.ICMSTot.vFrete", tot.vFrete, sums.sumVFrete)
    \o SumMismatch("TOTAL_VSEG_MISMATCH",
                   "Soma vSeg(itens)=${sumVSeg} mas total vSeg=${totVSeg} (diferenca ${diff}).",
                   "NFe.infNFe.total.ICMSTot.vSeg", tot.vSeg, sums.sumVSeg)
    \o SumMismatch("TOTAL_VOUTRO_MISMATCH",
                   "Soma vOutro(itens)=${sumVOutro} mas total vOutro=${totVOutro} (diferenca ${diff}).",
                   "NFe.infNFe.total.ICMSTot.vOutro", tot.vOutro, sums.sumVOutro)
    \o (IF ~tot.vNF.isNull /\ ~tot.vProd.isNull
        THEN VnfCheck(round2(OrZero(tot.vProd) + OrZero(tot.vFrete) + OrZero(tot.vSeg)
                             + OrZero(tot.vOutro) - OrZero(tot.vDesc)),
                      tot.vNF.v)
        ELSE <<>>)

\* ---- Regras por item: quantidade/preco + CFOP x UF + NCM.
\* The gets of the body of the per-item loop.
ItemGets(d) ==
  <<get(d, <<"prod", "qCom">>), get(d, <<"prod", "vUnCom">>), get(d, <<"prod", "cProd">>),
    get(d, <<"prod", "CFOP">>), get(d, <<"prod", "NCM">>)>>

\* One of the gets threw the TypeError of `key in acc`.
AnyThrew(gets) == \E k \in 1 .. Len(gets) : gets[k].threw

\* The quantity and unit-price rule for values below 0 only.
QuantityFindings_BelowZero(i, qCom, vUn) ==
  (IF ~qCom.isNull /\ qCom.v < 0
   THEN <<Finding("error", "ITEM_QCOM_ZERO", "Item ${i + 1}: qCom <= 0.",
                  "NFe.infNFe.det[${i}].prod.qCom", <<i + 1>>, i)>>
   ELSE <<>>)
  \o (IF ~vUn.isNull /\ vUn.v < 0
      THEN <<Finding("warning", "ITEM_VUN_ZERO", "Item ${i + 1}: vUnCom <= 0.",
                     "NFe.infNFe.det[${i}].prod.vUnCom", <<i + 1>>, i)>>
      ELSE <<>>)

QuantityFindings(i, qCom, vUn) ==
  (IF ~qCom.isNull /\ qCom.v <= 0
   THEN <<Finding("error", "ITEM_QCOM_ZERO", "Item ${i + 1}: qCom <= 0.",
                  "NFe.infNFe.det[${i}].prod.qCom", <<i + 1>>, i)>>
   ELSE <<>>)
  \o (IF ~vUn.isNull /\ vUn.v <= 0
      THEN <<Finding("warning", "ITEM_VUN_ZERO", "Item ${i + 1}: vUnCom <= 0.",
                     "NFe.infNFe.det[${i}].prod.vUnCom", <<i + 1>>, i)>>
      ELSE <<>>)

CfopFindings(i, cfop, ufEmit, ufDest) ==
  IF Truthy(cfop) /\ ufEmit # <<>> /\ ufDest # <<>>
  THEN (IF ufEmit = ufDest /\ isInterstateCfop(cfop)
        THEN <<Finding("warning", "CFOP_UF_MISMATCH",
                       "Item ${i + 1}: CFOP costuma ser interestadual",
                       "NFe.infNFe.det[${i}].prod.CFOP", <<i + 1>>, i)>>
        ELSE <<>>)
       \o (IF ufEmit # ufDest /\ isInternalCfop(cfop)
           THEN <<Finding("warning", "CFOP_UF_MISMATCH",
                          "Item ${i + 1}: CFOP costuma ser interno",
                          "NFe.infNFe.det[${i}].prod.CFOP", <<i + 1>>, i)>>
           ELSE <<>>)
  ELSE IF ~Truthy(cfop)
  THEN <<Finding("warning", "CFOP_MISSING", "Item ${i + 1}: nao encontrei prod.CFOP.",
                 "NFe.infNFe.det[${i}].prod.CFOP", <<i + 1>>, i)>>
  ELSE <<>>

NcmFindings(i, ncm) ==
  IF ncm = <<>>
  THEN <<Finding("warning", "NCM_MISSING", "Item ${i + 1}: NCM nao informado.",
                 "NFe.infNFe.det[${i}].prod.NCM", <<i + 1>>, i)>>
  ELSE IF Len(ncm) # 8
  THEN <<Finding("warning", "NCM_INVALID_LEN",
                 "Item ${i + 1}: NCM com ${ncm.length} digitos (esperado 8).",
                 "NFe.infNFe.det[${i}].prod.NCM", <<i + 1, Len(ncm)>>, i)>>
  ELSE <<>>

\* The pushes of the body for the values it read.
ItemOutcome(gets, i, ufEmit, ufDest) ==
  IF AnyThrew(gets) THEN [threw |-> TRUE, fs |-> <<>>]
  ELSE [threw |-> FALSE,
        fs |-> QuantityFindings(i, toNumber(gets[1].v), toNumber(gets[2].v))
               \o CfopFindings(i, gets[4].v, ufEmit, ufDest)
               \o NcmFindings(i, StripNonDigits(safeString(gets[5].v)))]

\* The findings of item i (0-based, as in the path det[i]); threw when a get
\* throws.
ItemFindings(d, i, ufEmit, ufDest) == ItemOutcome(ItemGets(d), i, ufEmit, ufDest)

\* for (let i = 0; i < itens.length; i++) { ... }
RECURSIVE ItemLoop(_, _, _, _, _), ItemStep(_, _, _, _, _, _)
ItemStep(itens, i, ufEmit, ufDest, fs, r) ==
  IF r.threw THEN r ELSE ItemLoop(itens, i + 1, ufEmit, ufDest, fs \o r.fs)

ItemLoop(itens, i, ufEmit, ufDest, fs) ==
  IF i < Len(itens)
  THEN ItemStep(itens, i, ufEmit, ufDest, fs, ItemFindings(itens[i + 1], i, ufEmit, ufDest))
  ELSE [threw |-> FALSE, fs |-> fs]

\* The pushes of auditXml with the per-item rules ahead of the financial ones.
AuditFindings_ItemsBeforeTotals(parsed, sums, tot, itemFs) ==
  ItemsEmptyFindings(parsed)
  \o AccessKeyFindings(parsed)
  \o EssentialFindings(parsed)
  \o EmitDocFindings(parsed)
  \o DestDocFindings(parsed)
  \o AddressFindings(parsed)
  \o itemFs
  \o FinancialFindings(parsed, sums, tot)

\* The pushes of auditXml past the INFNFE_MISSING return, in program order.
AuditFindings(parsed, sums, tot, itemFs) ==
  ItemsEmptyFindings(parsed)
  \o AccessKeyFindings(parsed)
  \o EssentialFindings(parsed)
  \o EmitDocFindings(parsed)
  \o DestDocFindings(parsed)
  \o AddressFindings(parsed)
  \o FinancialFindings(parsed, sums, tot)
  \o itemFs

\* params.totals, params.sums when summarize is called without them
NoTotals ==
  [defined |-> FALSE, vProd |-> Null, vDesc |-> Null, vFrete |-> Null, vSeg |-> Null,
   vOutro |-> Null, vNF |-> Null]
NoMetaSums ==
  [defined |-> FALSE, vProd |-> 0, vDesc |-> 0, vFrete |-> 0, vSeg |-> 0, vOutro |-> 0]

\* The sums of the meta with the product sum alone.
MetaSums_OnlyVProd(sums) ==
  [defined |-> TRUE, vProd |-> sums.sumVProd, vDesc |-> 0, vFrete |-> 0, vSeg |-> 0,
   vOutro |-> 0]

MetaSums(sums) ==
  [defined |-> TRUE, vProd |-> sums.sumVProd, vDesc |-> sums.sumVDesc,
   vFrete |-> sums.sumVFrete, vSeg |-> sums.sumVSeg, vOutro |-> sums.sumVOutro]

\* findings.filter((f) => f.severity === severity).length
CountSeverity(findings, severity) ==
  Cardinality({k \in 1 .. Len(findings) : findings[k].severity = severity})

\* The report of summarize for the three counts.
Report(params, ok, errors, warnings, infos) ==
  [ok |-> ok,
   meta |-> [itemsCount |-> params.itemsCount,
             hasNfeProc |-> params.hasNfeProc,
             accessKey |-> params.accessKey,
             totals |-> params.totals,
             sums |-> params.sums],
   summary |-> [errors |-> errors, warnings |-> warnings, infos |-> infos],
   findings |-> params.findings]

\* summarize with ok standing for the absence of warnings.
summarize_OkIsNoWarnings(params) ==
  Report(params, CountSeverity(params.findings, "warning") = 0,
         CountSeverity(params.findings, "error"),
         CountSeverity(params.findings, "warning"),
         CountSeverity(params.findings, "info"))

summarize(params) ==
  Report(params, CountSeverity(params.findings, "error") = 0,
         CountSeverity(params.findings, "error"),
         CountSeverity(params.findings, "warning"),
         CountSeverity(params.findings, "info"))

\* The report before auditXml has returned one.
NoReport ==
  summarize([findings |-> <<>>, itemsCount |-> 0, hasNfeProc |-> FALSE,
             accessKey |-> Undef, totals |-> NoTotals, sums |-> NoMetaSums])

\* The INFNFE_MISSING return without the metadata of the parse.
InfNFeMissingReport_NoMeta(parsed) ==
  summarize([findings |-> <<InfNFeMissingFinding>>, itemsCount |-> 0,
             hasNfeProc |-> FALSE, accessKey |-> Undef,
             totals |-> NoTotals, sums |-> NoMetaSums])

\* if (!parsed.infNFe) { push(...); return summarize({...}) }
InfNFeMissingReport(parsed) ==
  summarize([findings |-> <<InfNFeMissingFinding>>, itemsCount |-> 0,
             hasNfeProc |-> parsed.hasNfeProc, accessKey |-> parsed.accessKey,
             totals |-> NoTotals, sums |-> NoMetaSums])

Returned(report) == [threw |-> FALSE, report |-> report]
Thrown == [threw |-> TRUE, report |-> NoReport]

\* The return at the end of auditXml.
FullReport(parsed, sums, tot, itemFs) ==
  Returned(summarize([findings |-> AuditFindings(parsed, sums, tot, itemFs),
                      itemsCount |-> Len(parsed.det),
                      hasNfeProc |-> parsed.hasNfeProc,
                      accessKey |-> parsed.accessKey,
                      totals |-> tot,
                      sums |-> MetaSums(sums)]))

\* auditXml past the INFNFE_MISSING return, for the outcomes of its two loops.
FullPass(parsed, raw, items) ==
  IF raw.threw \/ items.threw THEN Thrown
  ELSE FullReport(parsed, RoundSums(raw), TotalsOf(parsed), items.fs)

\* auditXml from the return of parseNFeXml on.
AuditParsed(parsed) ==
  IF parsed.threw
  THEN Returned(summarize([findings |-> <<XmlParseErrorFinding>>, itemsCount |-> 0,
                           hasNfeProc |-> FALSE, accessKey |-> Undef,
                           totals |-> NoTotals, sums |-> NoMetaSums]))
  ELSE IF ~Truthy(parsed.infNFe)
  THEN Returned(InfNFeMissingReport(parsed))
  ELSE FullPass(parsed, SumLoop(parsed.det, 1, NoSums),
                ItemLoop(parsed.det, 0, UfOf(parsed.emit, "enderEmit"),
                         UfOf(parsed.dest, "enderDest"), <<>>))

\* auditXml from the result of InputSchema.safeParse on.
AuditValidated(in, issues) ==
  IF issues # <<>>
  THEN Returned(summarize([findings |-> InputInvalidFindings(issues), itemsCount |-> 0,
                           hasNfeProc |-> FALSE, accessKey |-> Undef,
                           totals |-> NoTotals, sums |-> NoMetaSums]))
  ELSE AuditParsed(parseNFeXml(in.xml))

\* auditXml(input): the report it returns, or that it throws.
auditXml(in) == AuditValidated(in, InputSchemaIssues(in))

(***************************************************************************)
(* auditXml applied to bounded inputs: the argument is null or an object   *)
(* whose xml is absent, a number or a text; a text is its length, whether  *)
(* the parser accepts it, and the tree the parser returns for it.          *)
(***************************************************************************)
NoXml == [t |-> "undef", len |-> 0, wellFormed |-> FALSE, tree |-> Undef]
XmlNumber == [t |-> "num", len |-> 0, wellFormed |-> FALSE, tree |-> Undef]
XmlText(len, wellFormed, tree) ==
  [t |-> "str", len |-> len, wellFormed |-> wellFormed, tree |-> tree]

NullInput == [t |-> "null", xml |-> NoXml]
ObjInput(xml) == [t |-> "obj", xml |-> xml]

\* A text that passes InputSchema and that the parser reads.
IsDocument(in) ==
  in.t = "obj" /\ in.xml.t = "str" /\ in.xml.len >= MinXmlLen /\ in.xml.wellFormed

AbcText == Str(<<"a", "b", "c">>)
UfSP == Str(<<"S", "P">>)

\* The access key of the base documents with its check digit replaced by
\* another digit, and cut to 43 digits.
KeyBadDV == [KeyBase44 EXCEPT ![44] = IF KeyBase44[44] = "0" THEN "1" ELSE "0"]
IdOf(key) == Str(<<"N", "F", "e">> \o key)

ProdFull(vProd, qCom, vUnCom) ==
  [cProd |-> Str(<<"P", "1">>), CFOP |-> Num(<<"5", "1", "0", "2">>), NCM |-> Num(<<"8", "4", "7", "1", "3", "0", "1", "2">>),
   qCom |-> Num(qCom), vUnCom |-> Num(vUnCom), vProd |-> Num(vProd)]

ItemA1 == Obj([prod |-> Obj(ProdFull(<<"1", "0", "0">>, <<"2">>, <<"5", "0">>))])
ItemA2 ==
  Obj([prod |-> Obj(ProdFull(<<"5", "0", ".", "5">>, <<"1">>, <<"5", "0", ".", "5">>)
                    @@ [vDesc |-> Num(<<"5", ".", "5">>), vFrete |-> Num(<<"1", "0">>)])])

\* A complete invoice in its protocol wrapper: every rule passes.
InfNFeA ==
  Obj(("@_Id" :> IdOf(KeyBase44))
      @@ [ide |-> Obj([nNF |-> Num(<<"1">>)]),
          emit |-> Obj([CNPJ |-> Num(CnpjBaseA),
                        enderEmit |-> Obj([UF |-> UfSP, CEP |-> Num(<<"1", "3", "0", "1", "0", "1", "0", "0">>)])]),
          dest |-> Obj([CNPJ |-> Num(CnpjBaseB),
                        enderDest |-> Obj([UF |-> UfSP, CEP |-> Num(<<"2", "0", "0", "4", "0", "0", "2", "0">>)])]),
          det |-> Arr(<<ItemA1, ItemA2>>),
          total |-> Obj([ICMSTot |->
                      Obj([vProd |-> Num(<<"1", "5", "0", ".", "5">>), vDesc |-> Num(<<"5", ".", "5">>),
                           vFrete |-> Num(<<"1", "0">>), vSeg |-> Num(<<"0">>),
                           vOutro |-> Num(<<"0">>), vNF |-> Num(<<"1", "5", "5">>)])])])
DocA ==
  Obj([nfeProc |->
         Obj([NFe |-> Obj([infNFe |-> InfNFeA]),
              protNFe |-> Obj([infProt |-> Obj([chNFe |-> Str(KeyBase44)])])])])

\* A bare invoice with one item (det is an object, not an array), no Id and
\* no ide, people as issuer and recipient, and totals that do not add up.
DocB ==
  Obj([NFe |-> Obj([infNFe |-> Obj(
    [emit |-> Obj([CPF |-> Num(CpfBaseA), enderEmit |-> Obj([UF |-> Str(<<"r", "j">>)])]),
     dest |-> Obj([CPF |-> Num(<<"5", "2", "9", "9", "8", "2", "2", "4", "7", "2", "4">>),
                   enderDest |-> Obj([UF |-> UfSP, CEP |-> Num(<<"1", "2", "3">>)])]),
     det |-> Obj([prod |-> Obj([cProd |-> Str(<<"P", "2">>), CFOP |-> Num(<<"5", "1", "0", "2">>),
                                NCM |-> Num(<<"1", "2", "3", "4">>), qCom |-> Num(<<"0">>),
                                vUnCom |-> Num(<<"0">>)])]),
     total |-> Obj([ICMSTot |-> Obj([vProd |-> Num(<<"1", "0">>), vNF |-> Num(<<"9", "9">>)])])])])])

\* A wrapped invoice whose key comes from the protocol block, with a wrong
\* check digit; no recipient, no issuer address, no totals, two faulty items.
DocC ==
  Obj([nfeProc |->
         Obj([NFe |-> Obj([infNFe |-> Obj(
                [ide |-> Obj([nNF |-> Num(<<"2">>)]),
                 emit |-> Obj([CNPJ |-> Num(CnpjBaseA)]),
                 det |-> Arr(<<Obj([prod |-> Obj([CFOP |-> Num(<<"5", "1", "0", "2">>),
                                                  qCom |-> Num(<<"1">>),
                                                  vProd |-> Num(<<"1", "0", ".", "0", "0">>)])]),
                               Obj([prod |-> Obj(ProdFull(<<"2", "0", ".", "0", "1">>, <<"0">>, <<"2", "0">>))])>>)])]),
              protNFe |-> Obj([infProt |-> Obj([chNFe |-> Str(KeyBadDV)])])])])

\* A bare invoice that states only what an audit without errors needs: its
\* key, the identification, a person as issuer, one item and its total.
DocD ==
  Obj([NFe |-> Obj([infNFe |-> Obj(
    ("@_Id" :> IdOf(KeyBase44))
    @@ [ide |-> Obj([nNF |-> Num(<<"3">>)]),
        emit |-> Obj([CPF |-> Num(CpfBaseA)]),
        det |-> Obj([prod |-> Obj([qCom |-> Num(<<"3">>), vProd |-> Num(<<"3", "0", ".", "0", "0">>)])]),
        total |-> Obj([ICMSTot |-> Obj([vProd |-> Num(<<"3", "0">>)])])])])])

\* A totals block with the declared values.
TotalOf(values) == Obj([ICMSTot |-> Obj(values)])

\* The lengths of the texts: shorter than InputSchema's minimum, and not.
ShortLen == MinXmlLen - 1
DocLen == MinXmlLen

BaseInputs ==
  <<NullInput,
    ObjInput(NoXml),
    ObjInput(XmlNumber),
    ObjInput(XmlText(ShortLen, TRUE, Obj([a |-> Str(<<>>)]))),
    ObjInput(XmlText(DocLen, FALSE, Undef)),
    ObjInput(XmlText(DocLen, TRUE, DocA)),
    ObjInput(XmlText(DocLen, TRUE, DocB)),
    ObjInput(XmlText(DocLen, TRUE, DocC)),
    ObjInput(XmlText(DocLen, TRUE, DocD))>>

\* ---- Departures from a base document: a path and the node put there
\* (Undef: the element is removed).
RECURSIVE GetAt(_, _)
GetAt(node, path) ==
  IF path = <<>> THEN node ELSE GetAt(Prop(node, path[1]), Tail(path))

RECURSIVE SetAt(_, _, _)
SetAt(node, path, new) ==
  IF path = <<>> THEN new
  ELSE LET key == path[1]
           child == SetAt(Prop(node, key), Tail(path), new)
           keys == IF child.t = "undef" THEN DOMAIN node.kids \ {key}
                   ELSE DOMAIN node.kids \cup {key}
       IN  Obj([k \in keys |-> IF k = key THEN child ELSE node.kids[k]])

Parent(path) == SubSeq(path, 1, Len(path) - 1)

\* The node at path can be replaced by new, and is not new already.
CanSet(node, path, new) ==
  LET cur == GetAt(node, path)
  IN  /\ path # <<>> => GetAt(node, Parent(path)).t = "obj"
      /\ ~(cur.t = new.t /\ cur.s = new.s /\ ~IsObject(cur))

InfNFePath(tree) ==
  IF Prop(tree, "nfeProc").t = "obj" THEN <<"nfeProc", "NFe", "infNFe">>
  ELSE <<"NFe", "infNFe">>

(***************************************************************************)
(* The POST endpoint (src/app/api/audit/route.ts).                         *)
(***************************************************************************)
\* A request body that is not JSON: req.json() rejects.
NotJson == [t |-> "notjson", xml |-> NoXml]

\* NextResponse.json(body, { status })
JsonResponse(body, status) == [status |-> status, body |-> body]
NoResponse == JsonResponse(NoReport, 0)

\* The body of the catch branch.
ServerErrorReport ==
  [ok |-> FALSE,
   meta |-> [itemsCount |-> 0, hasNfeProc |-> FALSE, accessKey |-> Undef,
             totals |-> NoTotals, sums |-> NoMetaSums],
   summary |-> [errors |-> 1, warnings |-> 0, infos |-> 0],
   findings |-> <<Finding("error", "SERVER_ERROR", "Falha ao processar a requisicao.",
                          "", <<>>, -1)>>]

\* The endpoint answering 200 with the catch branch's body.
Respond_CaughtIs200(result) ==
  IF result.threw THEN JsonResponse(ServerErrorReport, 200)
  ELSE JsonResponse(result.report, 200)

\* try { return NextResponse.json(auditXml(body), { status: 200 }) } catch { ... 500 }
Respond(result) ==
  IF result.threw THEN JsonResponse(ServerErrorReport, 500)
  ELSE JsonResponse(result.report, 200)

\* POST(req) for the body of the request.
POST(body) ==
  IF body = NotJson THEN JsonResponse(ServerErrorReport, 500)
  ELSE Respond(auditXml(body))

RouteIdle == response = NoResponse

\* A client posts the body and gets the response.
Post ==
  /\ pc = "input"
  /\ pc' = "responded"
  /\ response' = POST(input)
  /\ UNCHANGED <<input, out, deviations>>
  /\ UNCHANGED <<keyVars, cpfVars, cnpjVars, edits, batchVars>>

(***************************************************************************)
(* The batch mode of the page (runBatch and the handlers around it).       *)
(***************************************************************************)
\* A picked File: its name, its size and the text file.text() resolves to.
BatchFile(name, xml) == [name |-> name, size |-> xml.len, xml |-> xml]

\* Files to pick from: an invoice that audits without errors, a text the
\* parser rejects, a document without infNFe, and an invoice whose item is
\* a number, on which auditXml throws.
BatchFileKinds ==
  {BatchFile("ok.xml", XmlText(DocLen, TRUE, DocD)),
   BatchFile("broken.xml", XmlText(DocLen + 1, FALSE, Undef)),
   BatchFile("noroot.xml", XmlText(DocLen + 2, TRUE, Obj([a |-> Str(<<>>)]))),
   BatchFile("throws.xml",
             XmlText(DocLen + 3, TRUE,
                     SetAt(DocD, <<"NFe", "infNFe", "det">>, Num(<<"5">>))))}

\* arr.map((f) => ({ fileName: f.name, size: f.size }))
NewRow(f) ==
  [fileName |-> f.name, size |-> f.size, hasResult |-> FALSE, result |-> NoReport,
   hasError |-> FALSE, error |-> ""]
NewRows(files) == [k \in 1 .. Len(files) |-> NewRow(files[k])]

\* rows[i] = { ...rows[i], result: data } written to the row after it too.
WithResult_NextRowToo(rs, i, data) ==
  [k \in 1 .. Len(rs) |->
     IF k \in {i + 1, i + 2} THEN [rs[k] EXCEPT !.hasResult = TRUE, !.result = data]
     ELSE rs[k]]

\* rows[i] = { ...rows[i], result: data }
WithResult(rs, i, data) ==
  [rs EXCEPT ![i + 1] = [@ EXCEPT !.hasResult = TRUE, !.result = data]]

\* rows[i] = { ...rows[i], error: 'Falha ao analisar este arquivo.' }
WithError(rs, i) ==
  [rs EXCEPT ![i + 1] = [@ EXCEPT !.hasError = TRUE,
                                  !.error = "Falha ao analisar este arquivo."]]

BatchIdle ==
  /\ batchFiles = <<>>
  /\ batchRows = <<>>
  /\ batchLoading = FALSE
  /\ batchProgress = [done |-> 0, total |-> 0]
  /\ bpc = "idle"
  /\ arr = <<>>
  /\ rows = <<>>
  /\ done = 0
  /\ fileI = 0
  /\ xmlText = NoXml
  /\ res = NoResponse

\* onPickBatchFiles(files); its button is disabled while batchLoading.
PickBatchFiles ==
  /\ ~batchLoading
  /\ \E n \in 0 .. MaxFiles : \E files \in [1 .. n -> BatchFileKinds] :
       /\ batchFiles' = files
       /\ batchRows' = NewRows(files)
       /\ batchProgress' = [done |-> 0, total |-> Len(files)]
  /\ UNCHANGED <<batchLoading, bpc, arr, rows, done, fileI, xmlText, res>>
  /\ UNCHANGED <<keyVars, cpfVars, cnpjVars, edits, auditVars, routeVars>>

\* clearBatch(); its button is disabled while batchLoading or without rows.
ClearBatch ==
  /\ ~batchLoading
  /\ batchRows # <<>>
  /\ batchFiles' = <<>>
  /\ batchRows' = <<>>
  /\ batchProgress' = [done |-> 0, total |-> 0]
  /\ UNCHANGED <<batchLoading, bpc, arr, rows, done, fileI, xmlText, res>>
  /\ UNCHANGED <<keyVars, cpfVars, cnpjVars, edits, auditVars, routeVars>>

\* runBatch() up to its first await; its button is disabled while
\* batchLoading or without rows.
RunBatch ==
  /\ ~batchLoading
  /\ batchRows # <<>>
  /\ bpc = "idle"
  /\ Len(batchFiles) # 0
  /\ batchLoading' = TRUE
  /\ arr' = batchFiles
  /\ rows' = NewRows(batchFiles)
  /\ batchRows' = NewRows(batchFiles)
  /\ batchProgress' = [done |-> 0, total |-> Len(batchFiles)]
  /\ done' = 0
  /\ fileI' = 0
  /\ bpc' = "text"
  /\ UNCHANGED <<batchFiles, xmlText, res>>
  /\ UNCHANGED <<keyVars, cpfVars, cnpjVars, edits, auditVars, routeVars>>

\* The loop after the try/catch for file i that counts a file only when it
\* got a result.
AfterFile_CountsResults(newRows) ==
  /\ batchRows' = newRows
  /\ batchProgress' =
       [done |-> done + (IF newRows[fileI + 1].hasResult THEN 1 ELSE 0), total |-> Len(newRows)]
  /\ xmlText' = NoXml
  /\ res' = NoResponse
  /\ IF fileI + 1 < Len(arr)
     THEN /\ rows' = newRows
          /\ done' = done + (IF newRows[fileI + 1].hasResult THEN 1 ELSE 0)
          /\ fileI' = fileI + 1
          /\ bpc' = "text"
          /\ UNCHANGED <<batchLoading, arr>>
     ELSE /\ batchLoading' = FALSE
          /\ bpc' = "idle"
          /\ arr' = <<>>
          /\ rows' = <<>>
          /\ done' = 0
          /\ fileI' = 0
  /\ UNCHANGED batchFiles
  /\ UNCHANGED <<keyVars, cpfVars, cnpjVars, edits, auditVars, routeVars>>

\* The loop after the try/catch for file i: done++, setBatchRows([...rows]),
\* setBatchProgress, i++, and then the next file.text() or, past the last
\* file, setBatchLoading(false) and the return.
AfterFile(newRows) ==
  /\ batchRows' = newRows
  /\ batchProgress' = [done |-> done + 1, total |-> Len(newRows)]
  /\ xmlText' = NoXml
  /\ res' = NoResponse
  /\ IF fileI + 1 < Len(arr)
     THEN /\ rows' = newRows
          /\ done' = done + 1
          /\ fileI' = fileI + 1
          /\ bpc' = "text"
          /\ UNCHANGED <<batchLoading, arr>>
     ELSE /\ batchLoading' = FALSE
          /\ bpc' = "idle"
          /\ arr' = <<>>
          /\ rows' = <<>>
          /\ done' = 0
          /\ fileI' = 0
  /\ UNCHANGED batchFiles
  /\ UNCHANGED <<keyVars, cpfVars, cnpjVars, edits, auditVars, routeVars>>

\* await file.text() settles: the text, or the catch branch.
FileText ==
  /\ bpc = "text"
  /\ \E resolves \in BOOLEAN :
       IF resolves
       THEN /\ xmlText' = arr[fileI + 1].xml
            /\ bpc' = "fetch"
            /\ UNCHANGED <<batchFiles, batchRows, batchLoading, batchProgress, arr, rows,
                           done, fileI, res>>
            /\ UNCHANGED <<keyVars, cpfVars, cnpjVars, edits, auditVars, routeVars>>
       ELSE AfterFile(WithError(rows, fileI))

\* await fetch('/api/audit', ...) settles: the endpoint's response to the
\* body { xml: xmlText }, or the catch branch.
Fetch ==
  /\ bpc = "fetch"
  /\ \E resolves \in BOOLEAN :
       IF resolves
       THEN /\ res' = POST(ObjInput(xmlText))
            /\ bpc' = "json"
            /\ UNCHANGED <<batchFiles, batchRows, batchLoading, batchProgress, arr, rows,
                           done, fileI, xmlText>>
            /\ UNCHANGED <<keyVars, cpfVars, cnpjVars, edits, auditVars, routeVars>>
       ELSE AfterFile(WithError(rows, fileI))

\* await res.json() settles: the body as the row's result, or the catch
\* branch.
ResJson ==
  /\ bpc = "json"
  /\ \E resolves \in BOOLEAN :
       IF resolves THEN AfterFile(WithResult(rows, fileI, res.body))
       ELSE AfterFile(WithError(rows, fileI))

\* Departures in the wrapper, from the root of the tree.
RootAlts ==
  <<<< <<"nfeProc">>, Undef >>,
    << <<"nfeProc", "NFe">>, Undef >>,
    << <<"nfeProc", "NFe", "infNFe">>, Undef >>,
    << <<"nfeProc", "NFe", "infNFe">>, AbcText >>,
    << <<"nfeProc", "protNFe">>, Undef >>,
    << <<"nfeProc", "protNFe", "infProt", "chNFe">>, Str(KeyBase43) >>,
    << <<"nfeProc", "protNFe", "infProt", "chNFe">>, Str(KeyBase44) >>,
    << <<"nfeProc", "protNFe", "infProt", "chNFe">>, Str(KeyBase40) >>,
    << <<"nfeProc", "protNFe", "infProt", "chNFe">>, Str(<<"c", "h", "-">> \o KeyBase44 \o <<"9", "9">>) >>,
    << <<"nfeProc", "protNFe", "infProt", "chNFe">>, AbcText >>,
    << <<"NFe">>, Undef >>,
    << <<"NFe", "infNFe">>, Undef >>,
    << <<"NFe", "infNFe">>, Num(<<"0">>) >> >>

\* Departures in the invoice, from infNFe.
FieldAlts ==
  <<<< <<"@_Id">>, Undef >>,
    << <<"@_Id">>, IdOf(KeyBadDV) >>,
    << <<"@_Id">>, IdOf(KeyBase43) >>,
    << <<"@_Id">>, IdOf(KeyBase40) >>,
    << <<"@_Id">>, Str(<<" ", "x", "N", "F", "e">> \o KeyBadDV \o <<"1", " ">>) >>,
    << <<"ide">>, Undef >>,
    << <<"emit">>, Undef >>,
    << <<"emit">>, AbcText >>,
    << <<"emit">>, Str(<<>>) >>,
    << <<"emit", "CNPJ">>, Undef >>,
    << <<"emit", "CNPJ">>, Num(CnpjBaseZero) >>,
    << <<"emit", "CNPJ">>, Num(<<"1", "1", "2", "2", "2", "3", "3", "3", "0", "0", "0", "1", "8", "2">>) >>,
    << <<"emit", "CPF">>, Num(CpfBaseB) >>,
    << <<"emit", "enderEmit">>, Undef >>,
    << <<"emit", "enderEmit", "UF">>, Str(<<"R", "J">>) >>,
    << <<"emit", "enderEmit", "CEP">>, Num(<<"1", "3", "1", "0", "1", "0", "0">>) >>,
    << <<"dest">>, Undef >>,
    << <<"dest">>, Num(<<"5">>) >>,
    << <<"dest">>, Str(<<>>) >>,
    << <<"dest", "CNPJ">>, Undef >>,
    << <<"dest", "CNPJ">>, Str(CnpjBasePunct) >>,
    << <<"dest", "CPF">>, Undef >>,
    << <<"dest", "enderDest", "UF">>, Undef >>,
    << <<"dest", "enderDest", "UF">>, Str(<<"R", "J">>) >>,
    << <<"dest", "enderDest", "CEP">>, Num(<<"1", "1", "1", "1", "1", "1", "1", "1">>) >>,
    << <<"det">>, Undef >>,
    << <<"det">>, AbcText >>,
    << <<"det">>, Num(<<"5">>) >>,
    << <<"det">>, Num(<<"0">>) >>,
    << <<"total">>, Undef >>,
    << <<"total">>, AbcText >>,
    << <<"total">>, TotalOf([vProd |-> Num(<<"3", "0", ".", "0", "1">>)]) >>,
    << <<"total">>, TotalOf([vProd |-> Num(<<"2", "5", ".", "0", "0">>)]) >>,
    << <<"total">>, TotalOf([vProd |-> Num(<<"1", "0", "0", ".", "0", "0">>), vFrete |-> Num(<<"1", "0", ".", "0", "0">>),
                             vDesc |-> Num(<<"5", ".", "0", "0">>), vNF |-> Num(<<"1", "0", "5", ".", "0", "0">>)]) >>,
    << <<"total">>, TotalOf([vProd |-> Num(<<"1", "0", "0", ".", "0", "0">>), vFrete |-> Num(<<"1", "0", ".", "0", "0">>),
                             vDesc |-> Num(<<"5", ".", "0", "0">>), vNF |-> Num(<<"1", "0", "0", ".", "0", "0">>)]) >>,
    << <<"total", "ICMSTot">>, AbcText >>,
    << <<"total", "ICMSTot">>, Str(<<>>) >>,
    << <<"total", "ICMSTot">>, Num(<<"7">>) >>,
    << <<"total", "ICMSTot", "vProd">>, Undef >>,
    << <<"total", "ICMSTot", "vProd">>, Num(<<"1", "5", "0", ".", "5", "1">>) >>,
    << <<"total", "ICMSTot", "vProd">>, Str(<<"1", "5", "0", ",", "5", "2">>) >>,
    << <<"total", "ICMSTot", "vDesc">>, Num(<<"1">>) >>,
    << <<"total", "ICMSTot", "vFrete">>, Num(<<"1">>) >>,
    << <<"total", "ICMSTot", "vSeg">>, Num(<<"1">>) >>,
    << <<"total", "ICMSTot", "vOutro">>, Num(<<"1">>) >>,
    << <<"total", "ICMSTot", "vNF">>, Undef >>,
    << <<"total", "ICMSTot", "vNF">>, Num(<<"1", "5", "5", ".", "0", "2">>) >> >>

\* Departures in an item, from the det element.
ItemAlts ==
  <<<< <<>>, AbcText >>,
    << <<>>, Num(<<"5">>) >>,
    << <<"prod">>, Undef >>,
    << <<"prod">>, AbcText >>,
    << <<"prod">>, Num(<<"0">>) >>,
    << <<"prod", "vProd">>, Undef >>,
    << <<"prod", "vProd">>, Num(<<"1", "0", "0", ".", "0", "0", "4">>) >>,
    << <<"prod", "vProd">>, AbcText >>,
    << <<"prod", "vDesc">>, Num(<<"3">>) >>,
    << <<"prod", "vFrete">>, Num(<<"7">>) >>,
    << <<"prod", "vSeg">>, Num(<<"2">>) >>,
    << <<"prod", "vOutro">>, Num(<<"4">>) >>,
    << <<"prod", "qCom">>, Num(<<"0">>) >>,
    << <<"prod", "qCom">>, Num(<<"-", "1">>) >>,
    << <<"prod", "qCom">>, Str(<<"-", "0", ",", "5">>) >>,
    << <<"prod", "qCom">>, Str(<<"0", ",", "5">>) >>,
    << <<"prod", "qCom">>, AbcText >>,
    << <<"prod", "vUnCom">>, Num(<<"0">>) >>,
    << <<"prod", "CFOP">>, Undef >>,
    << <<"prod", "CFOP">>, Num(<<"6", "1", "0", "2">>) >>,
    << <<"prod", "CFOP">>, Num(<<"2", "1", "0", "2">>) >>,
    << <<"prod", "CFOP">>, Num(<<"1", "1", "0", "2">>) >>,
    << <<"prod", "CFOP">>, Num(<<"7", "1", "0", "1">>) >>,
    << <<"prod", "CFOP">>, Num(<<"5">>) >>,
    << <<"prod", "CFOP">>, Num(<<"0">>) >>,
    << <<"prod", "NCM">>, Undef >>,
    << <<"prod", "NCM">>, Num(<<"1", "2", "3", "4">>) >> >>

AuditIdle == input = NullInput /\ pc = "idle" /\ out = NoReport /\ deviations = 0

AuditInit ==
  /\ \E k \in 1 .. Len(BaseInputs) : input = BaseInputs[k]
  /\ pc = "input"
  /\ out = NoReport
  /\ deviations = 0

\* The caller's document departs from the base in the wrapper.
DeviateRoot ==
  /\ pc = "input"
  /\ IsDocument(input)
  /\ deviations < MaxDeviations
  /\ \E k \in 1 .. Len(RootAlts) :
       LET path == RootAlts[k][1]
           new == RootAlts[k][2]
       IN  /\ CanSet(input.xml.tree, path, new)
           /\ input' = [input EXCEPT !.xml.tree = SetAt(@, path, new)]
  /\ deviations' = deviations + 1
  /\ UNCHANGED <<pc, out>>
  /\ UNCHANGED <<keyVars, cpfVars, cnpjVars, edits, routeVars, batchVars>>

\* The caller's document departs from the base in one field of the invoice.
DeviateField ==
  /\ pc = "input"
  /\ IsDocument(input)
  /\ deviations < MaxDeviations
  /\ \E k \in 1 .. Len(FieldAlts) :
       LET path == InfNFePath(input.xml.tree) \o FieldAlts[k][1]
           new == FieldAlts[k][2]
       IN  /\ GetAt(input.xml.tree, InfNFePath(input.xml.tree)).t = "obj"
           /\ CanSet(input.xml.tree, path, new)
           /\ input' = [input EXCEPT !.xml.tree = SetAt(@, path, new)]
  /\ deviations' = deviations + 1
  /\ UNCHANGED <<pc, out>>
  /\ UNCHANGED <<keyVars, cpfVars, cnpjVars, edits, routeVars, batchVars>>

\* det with its item i replaced
WithItem(det, i, item) ==
  IF det.t = "arr" THEN Arr([det.items EXCEPT ![i] = item]) ELSE item

\* The caller's document departs from the base in one field of one item.
DeviateItem ==
  /\ pc = "input"
  /\ IsDocument(input)
  /\ deviations < MaxDeviations
  /\ LET tree == input.xml.tree
         detPath == Append(InfNFePath(tree), "det")
         det == GetAt(tree, detPath)
         itens == asArray(det)
     IN  /\ GetAt(tree, InfNFePath(tree)).t = "obj"
         /\ \E i \in 1 .. Len(itens) : \E k \in 1 .. Len(ItemAlts) :
              LET path == ItemAlts[k][1]
                  new == ItemAlts[k][2]
              IN  /\ CanSet(itens[i], path, new)
                  /\ input' = [input EXCEPT !.xml.tree =
                                 SetAt(@, detPath, WithItem(det, i, SetAt(itens[i], path, new)))]
  /\ deviations' = deviations + 1
  /\ UNCHANGED <<pc, out>>
  /\ UNCHANGED <<keyVars, cpfVars, cnpjVars, edits, routeVars, batchVars>>

\* The caller's document has one more item.
AddItem ==
  /\ pc = "input"
  /\ IsDocument(input)
  /\ deviations < MaxDeviations
  /\ LET tree == input.xml.tree
         detPath == Append(InfNFePath(tree), "det")
         det == GetAt(tree, detPath)
         itens == asArray(det)
     IN  /\ GetAt(tree, InfNFePath(tree)).t = "obj"
         /\ det.t \in {"obj", "arr"}
         /\ Len(itens) < MaxItems
         /\ input' = [input EXCEPT !.xml.tree = SetAt(@, detPath, Arr(Append(itens, ItemA1)))]
  /\ deviations' = deviations + 1
  /\ UNCHANGED <<pc, out>>
  /\ UNCHANGED <<keyVars, cpfVars, cnpjVars, edits, routeVars, batchVars>>

\* The caller after auditXml has returned the report, or thrown.
Finish(r) ==
  IF r.threw
  THEN pc' = "threw" /\ out' = out
  ELSE pc' = "done" /\ out' = r.report

\* const report = auditXml(input)
Audit ==
  /\ pc = "input"
  /\ Finish(auditXml(input))
  /\ UNCHANGED <<input, deviations>>
  /\ UNCHANGED <<keyVars, cpfVars, cnpjVars, edits, routeVars, batchVars>>

(***************************************************************************)
(* Specifications.                                                         *)
(***************************************************************************)
KeyDVInit ==
  KeyInit /\ CpfIdle /\ CnpjIdle /\ AuditIdle /\ RouteIdle /\ BatchIdle /\ edits = 0
KeyNext == KeyEdit \/ KeyCompute
SpecKeyDV == KeyDVInit /\ [][KeyNext]_vars

CPFInit ==
  CpfInit /\ KeyIdle /\ CnpjIdle /\ AuditIdle /\ RouteIdle /\ BatchIdle /\ edits = 0
CpfNext == CpfEdit \/ CpfValidate
SpecCPF == CPFInit /\ [][CpfNext]_vars

CNPJInit ==
  CnpjInit /\ KeyIdle /\ CpfIdle /\ AuditIdle /\ RouteIdle /\ BatchIdle /\ edits = 0
CnpjNext == CnpjEdit \/ CnpjValidate \/ CnpjCorrupt
SpecCNPJ == CNPJInit /\ [][CnpjNext]_vars

Init == AuditInit /\ KeyIdle /\ CpfIdle /\ CnpjIdle /\ RouteIdle /\ BatchIdle /\ edits = 0
Next == DeviateRoot \/ DeviateField \/ DeviateItem \/ AddItem \/ Audit
Spec == Init /\ [][Next]_vars

\* Requests to the endpoint: the bodies auditXml is explored on, and one
\* that is not JSON.
RouteInit ==
  /\ \/ \E k \in 1 .. Len(BaseInputs) : input = BaseInputs[k]
     \/ input = NotJson
  /\ pc = "input"
  /\ out = NoReport
  /\ deviations = 0
  /\ KeyIdle /\ CpfIdle /\ CnpjIdle /\ RouteIdle /\ BatchIdle /\ edits = 0
RouteNext == DeviateRoot \/ DeviateField \/ DeviateItem \/ AddItem \/ Post
SpecRoute == RouteInit /\ [][RouteNext]_vars

\* The page with no files picked.
BatchInit == BatchIdle /\ KeyIdle /\ CpfIdle /\ CnpjIdle /\ AuditIdle /\ RouteIdle /\ edits = 0
BatchNext == PickBatchFiles \/ ClearBatch \/ RunBatch \/ FileText \/ Fetch \/ ResJson
SpecBatch == BatchInit /\ [][BatchNext]_vars

\* Every await of a running batch settles.
SpecBatchFair ==
  /\ BatchInit
  /\ [][BatchNext]_vars
  /\ WF_vars(FileText)
  /\ WF_vars(Fetch)
  /\ WF_vars(ResJson)

(***************************************************************************)
(* Reference check digits, as the specification words them.                *)
(***************************************************************************)
\* The digits of a digit string, as numbers.
Values(s) == [p \in 1 .. Len(s) |-> DigitValue[s[p]]]

\* Sum of ds[p] * w[p] over the positions p of ds.
WeightedSum(ds, w) ==
  LET RECURSIVE Upto(_)
      Upto(p) == IF p = 0 THEN 0 ELSE Upto(p - 1) + ds[p] * w[p]
  IN  Upto(Len(ds))

\* remainder < 2 -> 0, else 11 - remainder
RefMod11(sum) == IF sum % 11 \in {0, 1} THEN 0 ELSE 11 - (sum % 11)

\* Weights cycling 2,3,...,9 from the rightmost digit to the leftmost.
RefKeyWeights(n) == [p \in 1 .. n |-> 2 + ((n - p) % 8)]

RefKeyDV(k43) ==
  LET dv == 11 - (WeightedSum(Values(k43), RefKeyWeights(Len(k43))) % 11)
  IN  IF dv \in {10, 11} THEN 0 ELSE dv

IsDigitString(s) == \A i \in 1 .. Len(s) : s[i] \in DigitChars

\* C6: for a digit string of 43 digits, and for one of 44 digits through its
\* first 43, calcNfeKeyDV returns the reference check digit (weights cycling
\* 2..9 from the right, dv = 11 - sum mod 11, 10 and 11 replaced by 0), which
\* lies in 0..9; for a digit string of any other length it returns null.
C6_KeyDVIsReference ==
  (keyPc = "computed" /\ IsDigitString(keyIn)) =>
    IF Len(keyIn) \in {43, 44}
    THEN /\ keyOut = Some(RefKeyDV(SubSeq(keyIn, 1, 43)))
         /\ keyOut.v \in 0 .. 9
    ELSE keyOut = Null

\* A 44-digit key whose computed check digit is the 0 that stands for 10 or 11.
C6_Witness ==
  /\ keyPc = "computed"
  /\ IsDigitString(keyIn)
  /\ Len(keyIn) = 44
  /\ keyOut = Some(0)
  /\ 11 - (WeightedSum(Values(SubSeq(keyIn, 1, 43)), RefKeyWeights(43)) % 11) \in {10, 11}

\* Descending weights first, first - 1, ..., over n digits.
RefDescending(first, n) == [p \in 1 .. n |-> first + 1 - p]

\* The two check digits of a 9-digit base under first weights a and b.
RefCpfDigits(base9, a, b) ==
  LET d1 == RefMod11(WeightedSum(base9, RefDescending(a, 9)))
      d2 == RefMod11(WeightedSum(Append(base9, d1), RefDescending(b, 10)))
  IN  <<d1, d2>>

RefCpfValid(x, a, b) ==
  LET ds == Values(SelectSeq(x, LAMBDA c : c \in DigitChars))
  IN  /\ Len(ds) = 11
      /\ \E i \in 1 .. 11 : ds[i] # ds[1]
      /\ <<ds[10], ds[11]>> = RefCpfDigits(SubSeq(ds, 1, 9), a, b)

\* C8 as stated: isValidCPF(x) holds exactly when x has 11 digits, not all
\* equal, whose last two are the check digits under weights 9..1 and 10..1.
C8_AsStated == cpfPc = "checked" => (cpfOut <=> RefCpfValid(cpfIn, 9, 10))

\* C8 amended: isValidCPF(x) holds exactly when x has 11 digits, not all
\* equal, whose last two are the check digits under weights 10..2 over the
\* first 9 digits and 11..2 over the first 10 digits.
C8_CpfIsReference == cpfPc = "checked" => (cpfOut <=> RefCpfValid(cpfIn, 10, 11))

\* An accepted individual identifier.
C8_Witness == cpfPc = "checked" /\ cpfOut /\ Len(cpfIn) = 11

RefCnpjW1 == <<5, 4, 3, 2, 9, 8, 7, 6, 5, 4, 3, 2>>
RefCnpjW2 == <<6, 5, 4, 3, 2, 9, 8, 7, 6, 5, 4, 3, 2>>

RefCnpjDigits(base12) ==
  LET d1 == RefMod11(WeightedSum(base12, RefCnpjW1))
      d2 == RefMod11(WeightedSum(Append(base12, d1), RefCnpjW2))
  IN  <<d1, d2>>

RefCnpjValid(x) ==
  LET ds == Values(SelectSeq(x, LAMBDA c : c \in DigitChars))
  IN  /\ Len(ds) = 14
      /\ \E i \in 1 .. 14 : ds[i] # ds[1]
      /\ <<ds[13], ds[14]>> = RefCnpjDigits(SubSeq(ds, 1, 12))

\* C9: isValidCNPJ(x) holds exactly when x has 14 digits, not all equal,
\* whose 13th and 14th are the check digits under the two weight vectors.
C9_CnpjIsReference ==
  cnpjPc \in {"checked", "corrupted"} => (cnpjOut <=> RefCnpjValid(cnpjIn))

\* An accepted entity identifier.
C9_Witness == cnpjPc = "checked" /\ cnpjOut /\ Len(cnpjIn) = 14

\* The check digits of the first 12 digits of a 14-digit string.
RefDigitsOf(s) == RefCnpjDigits(Values(SubSeq(s, 1, 12)))

\* C10 as stated: an accepted identifier with one of its first 12 digits
\* replaced by a different digit has other check digits and is rejected.
C10_AsStated ==
  cnpjPc = "corrupted" =>
    /\ RefDigitsOf(cnpjIn) # RefDigitsOf(cnpjOrig)
    /\ ~cnpjOut

\* C10 amended: the same for an accepted identifier whose two check digits
\* are not both 0.
C10_CorruptionRejected ==
  (cnpjPc = "corrupted" /\ <<cnpjOrig[13], cnpjOrig[14]>> # <<"0", "0">>) =>
    /\ RefDigitsOf(cnpjIn) # RefDigitsOf(cnpjOrig)
    /\ ~cnpjOut

\* A rejected corruption of an accepted identifier whose check digits are not 00.
C10_Witness ==
  /\ cnpjPc = "corrupted"
  /\ <<cnpjOrig[13], cnpjOrig[14]>> # <<"0", "0">>
  /\ cnpjIn[cnpjPos] # cnpjOrig[cnpjPos]
  /\ ~cnpjOut

(***************************************************************************)
(* The audit pass: properties of the report.                               *)
(***************************************************************************)
\* auditXml was called and has returned or thrown.
Called == pc \in {"done", "threw"}

\* The envelope fails InputSchema: no mapping, or xml missing, not a text, or
\* shorter than the minimum.
InvalidEnvelope ==
  ~(input.t = "obj" /\ input.xml.t = "str" /\ input.xml.len >= MinXmlLen)

\* The envelope is valid and the parser throws on the text.
ParserThrows == ~InvalidEnvelope /\ ~input.xml.wellFormed

\* The informational root of the document the parser read.
RefInfNFe ==
  LET tree == input.xml.tree
      wrapped == GetAt(tree, <<"nfeProc", "NFe">>)
      NFe == IF wrapped.t = "undef" THEN GetAt(tree, <<"NFe">>) ELSE wrapped
  IN  GetAt(NFe, <<"infNFe">>)

\* The document was read and has (lacks) an informational root.
PastGate == IsDocument(input) /\ Truthy(RefInfNFe)
NoRoot == IsDocument(input) /\ ~Truthy(RefInfNFe)

\* The access key of the protocol block: the first 44 of its digits, if any.
RefProtocolKey ==
  LET ch == GetAt(input.xml.tree, <<"nfeProc", "protNFe", "infProt", "chNFe">>)
      ds == SelectSeq(safeString(ch), LAMBDA c : c \in DigitChars)
  IN  IF ds = <<>> THEN Undef
      ELSE Str(SubSeq(ds, 1, IF Len(ds) < 44 THEN Len(ds) ELSE 44))

\* C1: auditXml returns a report for every input and never throws, also when
\* an item, its prod, the issuer, the recipient or the totals block is a
\* text or a number.
C1_NeverThrows == pc # "threw"

\* The number of findings of a severity, counted one by one.
RECURSIVE RefCount(_, _)
RefCount(fs, severity) ==
  IF fs = <<>> THEN 0
  ELSE (IF Head(fs).severity = severity THEN 1 ELSE 0) + RefCount(Tail(fs), severity)

\* C2: in every returned report ok holds exactly when summary.errors = 0,
\* the three counts of the summary are the numbers of findings of severity
\* error, warning and info, and they add up to the number of findings.
C2_SummaryTallies ==
  pc = "done" =>
    /\ out.ok <=> (out.summary.errors = 0)
    /\ out.summary.errors = RefCount(out.findings, "error")
    /\ out.summary.warnings = RefCount(out.findings, "warning")
    /\ out.summary.infos = RefCount(out.findings, "info")
    /\ out.summary.errors + out.summary.warnings + out.summary.infos = Len(out.findings)

\* A report of the full pass with findings of the three severities.
C2_Witness ==
  /\ pc = "done"
  /\ PastGate
  /\ ~out.ok
  /\ out.summary.errors > 0 /\ out.summary.warnings > 0 /\ out.summary.infos > 0

\* C3: for a document without infNFe auditXml returns a report with exactly
\* one finding, the error INFNFE_MISSING, ok false, itemsCount 0, no totals
\* and no sums, the protocol-presence flag and the access key of the
\* protocol block if there is one.
C3_NoRootReturnsAtOnce ==
  (Called /\ NoRoot) =>
    /\ pc = "done"
    /\ Len(out.findings) = 1
    /\ out.findings[1].severity = "error"
    /\ out.findings[1].code = "INFNFE_MISSING"
    /\ ~out.ok
    /\ out.meta.itemsCount = 0
    /\ ~out.meta.totals.defined
    /\ ~out.meta.sums.defined
    /\ out.meta.hasNfeProc = Truthy(GetAt(input.xml.tree, <<"nfeProc">>))
    /\ out.meta.accessKey = RefProtocolKey

\* A wrapped document without infNFe whose protocol block carries a key.
C3_Witness ==
  /\ pc = "done"
  /\ NoRoot
  /\ out.meta.hasNfeProc
  /\ out.meta.accessKey.t = "str"
  /\ Len(out.meta.accessKey.s) = 44

\* C4: for an invalid envelope, and for a text the parser throws on,
\* auditXml returns a report with exactly one finding, an error of code
\* INPUT_INVALID with a non-empty path and the validation message,
\* respectively XML_PARSE_ERROR, and nothing else: ok false, itemsCount 0,
\* hasNfeProc false, no access key, no totals, no sums.
C4_TerminalInputErrors ==
  (Called /\ (InvalidEnvelope \/ ParserThrows)) =>
    /\ pc = "done"
    /\ Len(out.findings) = 1
    /\ out.findings[1].severity = "error"
    /\ out.findings[1].code = IF InvalidEnvelope THEN "INPUT_INVALID" ELSE "XML_PARSE_ERROR"
    /\ InvalidEnvelope => (out.findings[1].path # "" /\ out.findings[1].message # "")
    /\ (input.t = "obj" /\ input.xml.t = "str" /\ InvalidEnvelope) =>
         /\ out.findings[1].path = "xml"
         /\ out.findings[1].message = "XML vazio ou muito curto"
    /\ ~out.ok
    /\ out.meta.itemsCount = 0
    /\ ~out.meta.hasNfeProc
    /\ out.meta.accessKey = Undef
    /\ ~out.meta.totals.defined
    /\ ~out.meta.sums.defined

\* The report for a text shorter than the minimum.
C4_Witness ==
  /\ pc = "done"
  /\ input.t = "obj" /\ input.xml.t = "str" /\ input.xml.len < MinXmlLen
  /\ out.findings[1].code = "INPUT_INVALID"

\* The rule group of a finding code, in the order of the specification:
\* structural, access key, essential fields, identifiers, address,
\* financial, per-item (0: the input errors).
GroupOf(code) ==
  CASE code \in {"INFNFE_MISSING", "ITEMS_EMPTY"} -> 1
    [] code \in {"ACCESS_KEY_NOT_FOUND", "ACCESS_KEY_LEN", "ACCESS_KEY_DV_UNKNOWN",
                 "ACCESS_KEY_DV_MISMATCH", "ACCESS_KEY_OK"} -> 2
    [] code \in {"IDE_MISSING", "EMIT_MISSING", "DEST_MISSING"} -> 3
    [] code \in {"EMIT_DOC_INVALID", "EMIT_DOC_OK", "EMIT_DOC_MISSING",
                 "DEST_DOC_INVALID", "DEST_DOC_OK", "DEST_DOC_MISSING"} -> 4
    [] code \in {"EMIT_UF_MISSING", "DEST_UF_MISSING", "EMIT_CEP_INVALID",
                 "DEST_CEP_INVALID"} -> 5
    [] code \in {"TOTALS_MISSING", "ITEM_VPROD_MISSING", "TOTAL_VPROD_MISMATCH",
                 "TOTAL_VPROD_OK", "TOTAL_VDESC_MISMATCH", "TOTAL_VDESC_OK",
                 "TOTAL_VFRETE_MISMATCH", "TOTAL_VSEG_MISMATCH", "TOTAL_VOUTRO_MISMATCH",
                 "TOTAL_VNF_SUSPECT", "TOTAL_VNF_OK"} -> 6
    [] code \in {"ITEM_QCOM_ZERO", "ITEM_VUN_ZERO", "CFOP_UF_MISMATCH", "CFOP_MISSING",
                 "NCM_MISSING", "NCM_INVALID_LEN"} -> 7
    [] OTHER -> 0

\* C5: in every report no finding of a later rule group precedes one of an
\* earlier group, and the per-item findings are in ascending item order.
C5_GroupOrder ==
  pc = "done" =>
    \A i, j \in 1 .. Len(out.findings) :
      i < j =>
        /\ GroupOf(out.findings[i].code) <= GroupOf(out.findings[j].code)
        /\ GroupOf(out.findings[i].code) = 7 =>
             out.findings[i].index <= out.findings[j].index

\* A report with findings of the groups access key to per-item, the last
\* about two items.
C5_Witness ==
  /\ pc = "done"
  /\ \A g \in 2 .. 7 :
       \E i \in 1 .. Len(out.findings) : GroupOf(out.findings[i].code) = g
  /\ \E i, j \in 1 .. Len(out.findings) :
       /\ GroupOf(out.findings[i].code) = 7
       /\ GroupOf(out.findings[j].code) = 7
       /\ out.findings[i].index < out.findings[j].index

\* The access-key findings of the report.
KeyFindings == SelectSeq(out.findings, LAMBDA f : GroupOf(f.code) = 2)

\* The access key the parser extracted: the 44 digits after NFe in the Id of
\* infNFe, else the key of the protocol block.
RefAccessKey ==
  LET fromId == extractAccessKeyFromInfNFeId(GetAt(RefInfNFe, <<"@_Id">>))
  IN  IF fromId.t = "undef" THEN RefProtocolKey ELSE fromId

\* C7: past the structural gate the report has exactly one access-key
\* finding: the warning ACCESS_KEY_NOT_FOUND without a key, the warning
\* ACCESS_KEY_LEN with the digit count for a key not of 44 digits, and for 44
\* digits the error ACCESS_KEY_DV_MISMATCH with the supplied and the computed
\* digit when they differ, the info ACCESS_KEY_OK when they agree.
C7_OneAccessKeyFinding ==
  (pc = "done" /\ PastGate) =>
    /\ Len(KeyFindings) = 1
    /\ LET f == KeyFindings[1]
           key == RefAccessKey
           ds == SelectSeq(key.s, LAMBDA c : c \in DigitChars)
       IN  IF key.t = "undef"
           THEN f.code = "ACCESS_KEY_NOT_FOUND" /\ f.severity = "warning"
           ELSE IF Len(ds) # 44
           THEN f.code = "ACCESS_KEY_LEN" /\ f.severity = "warning" /\ f.args = <<Len(ds)>>
           ELSE IF RefKeyDV(SubSeq(ds, 1, 43)) # DigitValue[ds[44]]
           THEN /\ f.code = "ACCESS_KEY_DV_MISMATCH"
                /\ f.severity = "error"
                /\ f.args = <<DigitValue[ds[44]], RefKeyDV(SubSeq(ds, 1, 43))>>
           ELSE f.code = "ACCESS_KEY_OK" /\ f.severity = "info"

\* A report for a key of 43 digits, taken from the protocol block.
C7_Witness ==
  /\ pc = "done"
  /\ PastGate
  /\ RefAccessKey.t = "str"
  /\ Len(RefAccessKey.s) = 43
  /\ \E i \in 1 .. Len(out.findings) : out.findings[i].code = "ACCESS_KEY_LEN"

(***************************************************************************)
(* The audit pass: the identifier, structural and financial rules.         *)
(***************************************************************************)
\* The findings of the report with one of the codes, in report order.
FindingsOf(codes) == SelectSeq(out.findings, LAMBDA f : f.code \in codes)

\* The issuer and the recipient block of the document the parser read.
RefEmit == GetAt(RefInfNFe, <<"emit">>)
RefDest == GetAt(RefInfNFe, <<"dest">>)

\* The identifier of a party: its CNPJ element, else its CPF element.
RefDocOf(party) ==
  IF GetAt(party, <<"CNPJ">>).t = "undef" THEN GetAt(party, <<"CPF">>)
  ELSE GetAt(party, <<"CNPJ">>)

\* An identifier is valid as an entity identifier when it has 14 digits, as
\* an individual identifier otherwise.
RefDocValid(doc) ==
  IF Len(SelectSeq(StringOf(doc), LAMBDA c : c \in DigitChars)) = 14
  THEN RefCnpjValid(StringOf(doc))
  ELSE RefCpfValid(StringOf(doc), 10, 11)

\* The codes of the findings about the recipient.
RecipientCodes ==
  {"DEST_MISSING", "DEST_DOC_MISSING", "DEST_DOC_INVALID", "DEST_DOC_OK",
   "DEST_UF_MISSING", "DEST_CEP_INVALID"}

\* Recipients to put in the place of the document's: none, a number, a text,
\* an empty block, and blocks with an invalid, a valid and a punctuated
\* identifier, another jurisdiction and a bad postal code.
RecipientAlts ==
  {Undef, Num(<<"5">>), Num(<<"0">>), AbcText, Obj(<<>>),
   Obj([CPF |-> Num(<<"5", "2", "9", "9", "8", "2", "2", "4", "7", "2", "4">>)]),
   Obj([CNPJ |-> Num(CnpjBaseZero), enderDest |-> Obj([CEP |-> Num(<<"1", "2", "3">>)])]),
   Obj([CNPJ |-> Str(CnpjBasePunct),
        enderDest |-> Obj([UF |-> Str(<<"R", "J">>), CEP |-> Num(<<"2", "0", "0", "4", "0", "0", "2", "0">>)])]),
   Obj([CPF |-> Num(CpfBaseA), enderDest |-> Obj([UF |-> UfSP])])}

\* The input with the recipient block of its document replaced.
WithRecipient(in, d) ==
  [in EXCEPT !.xml.tree =
     SetAt(in.xml.tree, Append(InfNFePath(in.xml.tree), "dest"), d)]

\* An audit that returned, with the ok of the report under check.
SameVerdict(result) == ~result.threw /\ result.report.ok = out.ok

\* C11: past the structural gate there is one finding about the issuer
\* identifier, the warning EMIT_DOC_MISSING when it is absent and the error
\* EMIT_DOC_INVALID when it is present and invalid; for a recipient block
\* there is one about its identifier, the warning DEST_DOC_MISSING when it is
\* absent and the warning DEST_DOC_INVALID when it is invalid; no finding
\* about the recipient is an error, and the audit of the same document with
\* another recipient returns the same ok.
C11_RecipientNeverError ==
  (pc = "done" /\ PastGate) =>
    /\ LET fs == FindingsOf({"EMIT_DOC_MISSING", "EMIT_DOC_INVALID", "EMIT_DOC_OK"})
           doc == RefDocOf(RefEmit)
       IN  /\ Len(fs) = 1
           /\ ~Truthy(doc) => (fs[1].code = "EMIT_DOC_MISSING" /\ fs[1].severity = "warning")
           /\ (Truthy(doc) /\ ~RefDocValid(doc)) =>
                (fs[1].code = "EMIT_DOC_INVALID" /\ fs[1].severity = "error")
    /\ LET fs == FindingsOf({"DEST_DOC_MISSING", "DEST_DOC_INVALID", "DEST_DOC_OK"})
           doc == RefDocOf(RefDest)
       IN  IF ~Truthy(RefDest) THEN fs = <<>>
           ELSE /\ Len(fs) = 1
                /\ ~Truthy(doc) =>
                     (fs[1].code = "DEST_DOC_MISSING" /\ fs[1].severity = "warning")
                /\ (Truthy(doc) /\ ~RefDocValid(doc)) =>
                     (fs[1].code = "DEST_DOC_INVALID" /\ fs[1].severity = "warning")
    /\ \A i \in 1 .. Len(out.findings) :
         out.findings[i].code \in RecipientCodes => out.findings[i].severity # "error"
    /\ RefInfNFe.t = "obj" =>
         \A d \in RecipientAlts : SameVerdict(auditXml(WithRecipient(input, d)))

\* A failed report with an invalid issuer identifier and an invalid
\* recipient identifier.
C11_Witness ==
  /\ pc = "done"
  /\ PastGate
  /\ RefInfNFe.t = "obj"
  /\ ~out.ok
  /\ \E i \in 1 .. Len(out.findings) : out.findings[i].code = "EMIT_DOC_INVALID"
  /\ \E i \in 1 .. Len(out.findings) : out.findings[i].code = "DEST_DOC_INVALID"

\* The items of the document the parser read: the det elements in document
\* order, one element standing for a list of one.
RefItems ==
  IF GetAt(RefInfNFe, <<"det">>).t = "undef" THEN <<>>
  ELSE IF GetAt(RefInfNFe, <<"det">>).t = "arr" THEN GetAt(RefInfNFe, <<"det">>).items
  ELSE <<GetAt(RefInfNFe, <<"det">>)>>

\* The declared-totals block of the document the parser read.
RefTotals == GetAt(RefInfNFe, <<"total", "ICMSTot">>)

\* The places in the report of the findings with one of the codes.
PlacesOf(codes) == {i \in 1 .. Len(out.findings) : out.findings[i].code \in codes}

\* Exactly one finding has the code, of the severity, when the condition
\* holds, and none otherwise.
OneIff(cond, code, severity) ==
  IF cond
  THEN /\ Cardinality(PlacesOf({code})) = 1
       /\ \A i \in PlacesOf({code}) : out.findings[i].severity = severity
  ELSE PlacesOf({code}) = {}

\* C12: past the structural gate a document without items gets the error
\* ITEMS_EMPTY as its first finding, followed by the access-key finding, the
\* issuer-identifier finding and the finding about the totals block or the
\* product total; a document with items gets no ITEMS_EMPTY.  The error
\* IDE_MISSING, the error EMIT_MISSING and the warning DEST_MISSING are there
\* exactly when the identification, issuer and recipient block is absent.
C12_EmptyItemsNotFatal ==
  (pc = "done" /\ PastGate) =>
    /\ OneIff(RefItems = <<>>, "ITEMS_EMPTY", "error")
    /\ RefItems = <<>> =>
         /\ out.findings[1].code = "ITEMS_EMPTY"
         /\ out.meta.itemsCount = 0
         /\ Len(KeyFindings) = 1
         /\ Cardinality(PlacesOf({"EMIT_DOC_MISSING", "EMIT_DOC_INVALID", "EMIT_DOC_OK"})) = 1
         /\ ~Truthy(RefTotals) => Cardinality(PlacesOf({"TOTALS_MISSING"})) = 1
         /\ (Truthy(RefTotals) /\ ~toNumber(GetAt(RefTotals, <<"vProd">>)).isNull) =>
              Cardinality(PlacesOf({"TOTAL_VPROD_MISMATCH", "TOTAL_VPROD_OK"})) = 1
         /\ \A i \in 2 .. Len(out.findings) : GroupOf(out.findings[i].code) \in 2 .. 6
    /\ OneIff(~Truthy(GetAt(RefInfNFe, <<"ide">>)), "IDE_MISSING", "error")
    /\ OneIff(~Truthy(RefEmit), "EMIT_MISSING", "error")
    /\ OneIff(~Truthy(RefDest), "DEST_MISSING", "warning")

\* The report for a complete document with its items removed: ITEMS_EMPTY,
\* then findings of the five other groups.
C12_Witness ==
  /\ pc = "done"
  /\ PastGate
  /\ RefItems = <<>>
  /\ out.findings[1].code = "ITEMS_EMPTY"
  /\ \A g \in 2 .. 6 : \E i \in 2 .. Len(out.findings) : GroupOf(out.findings[i].code) = g

\* The number of items without a numeric product value.
RefVProdMissing ==
  Cardinality({k \in 1 .. Len(RefItems) :
                 toNumber(GetAt(RefItems[k], <<"prod", "vProd">>)).isNull})

\* The report has the warning ITEM_VPROD_MISSING once, with the count n.
HasVProdMissing(n) ==
  /\ Cardinality(PlacesOf({"ITEM_VPROD_MISSING"})) = 1
  /\ \A i \in PlacesOf({"ITEM_VPROD_MISSING"}) :
       out.findings[i].severity = "warning" /\ out.findings[i].args = <<n>>

\* C13 as stated: past the structural gate, when the number of items without
\* a product value is positive the report has exactly one warning
\* ITEM_VPROD_MISSING with that number, with or without a totals block.
C13_AsStated ==
  (pc = "done" /\ PastGate /\ RefVProdMissing > 0) => HasVProdMissing(RefVProdMissing)

\* C13 amended: past the structural gate the report has exactly one warning
\* ITEM_VPROD_MISSING, with the number of items without a product value, when
\* that number is positive and the totals block is present; it has none when
\* the number is 0 or the totals block is absent.
C13_VProdMissingNeedsTotals ==
  (pc = "done" /\ PastGate) =>
    IF RefVProdMissing > 0 /\ Truthy(RefTotals)
    THEN HasVProdMissing(RefVProdMissing)
    ELSE PlacesOf({"ITEM_VPROD_MISSING"}) = {}

\* A report with the warning for one of several items, the totals block
\* being present.
C13_Witness ==
  /\ pc = "done"
  /\ PastGate
  /\ Truthy(RefTotals)
  /\ Len(RefItems) > 1
  /\ RefVProdMissing = 1
  /\ HasVProdMissing(1)

\* The codes that start with TOTAL_: the comparisons with the declared totals.
TotalCodes ==
  {"TOTAL_VPROD_MISMATCH", "TOTAL_VPROD_OK", "TOTAL_VDESC_MISMATCH", "TOTAL_VDESC_OK",
   "TOTAL_VFRETE_MISMATCH", "TOTAL_VSEG_MISMATCH", "TOTAL_VOUTRO_MISMATCH",
   "TOTAL_VNF_SUSPECT", "TOTAL_VNF_OK"}

\* C14: past the structural gate, when the totals block is absent (or empty)
\* the report has exactly one warning TOTALS_MISSING and no finding whose
\* code starts with TOTAL_; when the block is present it has no
\* TOTALS_MISSING.
C14_TotalsMissingSkipsComparisons ==
  (pc = "done" /\ PastGate) =>
    /\ OneIff(~Truthy(RefTotals), "TOTALS_MISSING", "warning")
    /\ ~Truthy(RefTotals) => PlacesOf(TotalCodes) = {}

\* A report for a document with items that carry values and no totals block.
C14_Witness ==
  /\ pc = "done"
  /\ PastGate
  /\ ~Truthy(RefTotals)
  /\ out.meta.sums.vProd > 0
  /\ PlacesOf({"TOTALS_MISSING"}) # {}

\* The sum of a value over the items that carry it, rounded to the cent.
RECURSIVE RefSumUpTo(_, _)
RefSumUpTo(field, n) ==
  IF n = 0 THEN 0
  ELSE RefSumUpTo(field, n - 1)
       + (IF toNumber(GetAt(RefItems[n], <<"prod", field>>)).isNull THEN 0
          ELSE toNumber(GetAt(RefItems[n], <<"prod", field>>)).v)
RefSum(field) == round2(RefSumUpTo(field, Len(RefItems)))

\* The value the totals block declares: null when it declares none.
RefDeclared(field) == toNumber(GetAt(RefTotals, <<field>>))

\* The value is a whole number of cents.
WholeCents(n) == n % Cent = 0

\* C15: past the structural gate, when the totals block declares a product
\* total (in whole cents) the report has exactly one product-value finding,
\* whatever the item sum: the error TOTAL_VPROD_MISMATCH with the sum, the
\* declared total and sum - declared when |sum - declared| is above one
\* cent, the info TOTAL_VPROD_OK otherwise, a difference of one cent included.
C15_ProductTotal ==
  (pc = "done" /\ PastGate /\ Truthy(RefTotals) /\ ~RefDeclared("vProd").isNull
     /\ WholeCents(RefDeclared("vProd").v)) =>
    LET fs == FindingsOf({"TOTAL_VPROD_MISMATCH", "TOTAL_VPROD_OK"})
        sum == RefSum("vProd")
        declared == RefDeclared("vProd").v
    IN  /\ Len(fs) = 1
        /\ IF Abs(sum - declared) > Cent
           THEN /\ fs[1].code = "TOTAL_VPROD_MISMATCH"
                /\ fs[1].severity = "error"
                /\ fs[1].args = <<sum, declared, sum - declared>>
           ELSE /\ fs[1].code = "TOTAL_VPROD_OK"
                /\ fs[1].severity = "info"

\* The worked example: items of 10.00 and 20.01 with a declared product
\* total of 25.00 get the error with the difference 5.01.
C15_Witness ==
  /\ pc = "done"
  /\ PastGate
  /\ Truthy(RefTotals)
  /\ RefSum("vProd") = 30010
  /\ RefDeclared("vProd") = Some(25000)
  /\ \E i \in PlacesOf({"TOTAL_VPROD_MISMATCH"}) :
       out.findings[i].args = <<30010, 25000, 5010>>

\* The four values compared only for a positive item sum, with the code of
\* their mismatch.
GuardedFields ==
  {<<"vDesc", "TOTAL_VDESC_MISMATCH">>, <<"vFrete", "TOTAL_VFRETE_MISMATCH">>,
   <<"vSeg", "TOTAL_VSEG_MISMATCH">>, <<"vOutro", "TOTAL_VOUTRO_MISMATCH">>}

\* The codes of the findings about a guarded value.
FieldCodes(field) ==
  CASE field = "vDesc" -> {"TOTAL_VDESC_MISMATCH", "TOTAL_VDESC_OK"}
    [] field = "vFrete" -> {"TOTAL_VFRETE_MISMATCH"}
    [] field = "vSeg" -> {"TOTAL_VSEG_MISMATCH"}
    [] field = "vOutro" -> {"TOTAL_VOUTRO_MISMATCH"}

\* C16: past the structural gate, for discount, freight, insurance and other
\* expenses: when the totals block declares the value (in whole cents), the
\* item sum is positive and they differ by more than one cent, the report
\* has exactly one mismatch finding for it, a warning with the sum, the
\* declared value and their difference; when they differ by less it has no
\* mismatch; when the value is not declared or the item sum is 0 it has no
\* finding for it at all.
C16_GuardedComparisons ==
  (pc = "done" /\ PastGate /\ Truthy(RefTotals)) =>
    \A fc \in GuardedFields :
      LET sum == RefSum(fc[1])
          declared == RefDeclared(fc[1])
      IN  IF declared.isNull \/ sum <= 0
          THEN PlacesOf(FieldCodes(fc[1])) = {}
          ELSE WholeCents(declared.v) =>
                 IF Abs(sum - declared.v) > Cent
                 THEN /\ Cardinality(PlacesOf({fc[2]})) = 1
                      /\ \A i \in PlacesOf({fc[2]}) :
                           /\ out.findings[i].severity = "warning"
                           /\ out.findings[i].args = <<sum, declared.v, sum - declared.v>>
                 ELSE PlacesOf({fc[2]}) = {}

\* A report with the freight warning for a positive item sum that differs
\* from the declared freight, and without an insurance finding, no item
\* carrying insurance.
C16_Witness ==
  /\ pc = "done"
  /\ PastGate
  /\ Truthy(RefTotals)
  /\ RefSum("vFrete") > 0
  /\ ~RefDeclared("vFrete").isNull
  /\ \E i \in PlacesOf({"TOTAL_VFRETE_MISMATCH"}) : out.findings[i].severity = "warning"
  /\ RefSum("vSeg") = 0
  /\ ~RefDeclared("vSeg").isNull
  /\ PlacesOf({"TOTAL_VSEG_MISMATCH"}) = {}

\* The codes of the info findings of the report that are not those of the
\* access-key and identifier rules: the info findings of the financial group.
FinancialInfos ==
  {out.findings[i].code : i \in {j \in 1 .. Len(out.findings) :
                                   out.findings[j].severity = "info"}}
  \ {"ACCESS_KEY_OK", "EMIT_DOC_OK", "DEST_DOC_OK"}

RefOrZero(field) == IF RefDeclared(field).isNull THEN 0 ELSE RefDeclared(field).v

\* product + freight + insurance + other - discount, of the declared values.
RefExpectedNF ==
  RefOrZero("vProd") + RefOrZero("vFrete") + RefOrZero("vSeg") + RefOrZero("vOutro")
  - RefOrZero("vDesc")

\* The declared values are whole numbers of cents.
DeclaredInCents ==
  \A field \in {"vProd", "vDesc", "vFrete", "vSeg", "vOutro", "vNF"} :
    WholeCents(RefOrZero(field))

\* C18: past the structural gate, when the totals block declares a product
\* total and a final value (in whole cents) the report has exactly one
\* final-value finding, from the declared values alone: with expected =
\* product + freight + insurance + other - discount, a missing term being 0,
\* and diff = expected - final, the warning TOTAL_VNF_SUSPECT with expected,
\* final and diff when |diff| is above one cent, the info TOTAL_VNF_OK
\* otherwise; when one of the two is not declared it has none.
C18_FinalValue ==
  (pc = "done" /\ PastGate) =>
    IF Truthy(RefTotals) /\ ~RefDeclared("vProd").isNull /\ ~RefDeclared("vNF").isNull
    THEN DeclaredInCents =>
           LET fs == FindingsOf({"TOTAL_VNF_SUSPECT", "TOTAL_VNF_OK"})
               diff == RefExpectedNF - RefDeclared("vNF").v
           IN  /\ Len(fs) = 1
               /\ IF Abs(diff) > Cent
                  THEN /\ fs[1].code = "TOTAL_VNF_SUSPECT"
                       /\ fs[1].severity = "warning"
                       /\ fs[1].args = <<RefExpectedNF, RefDeclared("vNF").v, diff>>
                  ELSE /\ fs[1].code = "TOTAL_VNF_OK"
                       /\ fs[1].severity = "info"
    ELSE PlacesOf({"TOTAL_VNF_SUSPECT", "TOTAL_VNF_OK"}) = {}

\* The worked example: product 100.00, freight 10.00, discount 5.00 and a
\* declared final value of 100.00 get the warning with diff 5.00, whatever
\* the items add up to.
C18_Witness ==
  /\ pc = "done"
  /\ PastGate
  /\ Truthy(RefTotals)
  /\ RefDeclared("vProd") = Some(100000)
  /\ RefDeclared("vFrete") = Some(10000)
  /\ RefDeclared("vDesc") = Some(5000)
  /\ RefDeclared("vNF") = Some(100000)
  /\ RefSum("vProd") # 100000
  /\ \E i \in PlacesOf({"TOTAL_VNF_SUSPECT"}) :
       out.findings[i].args = <<105000, 100000, 5000>>

\* C19 as stated: the meta of a report past the structural gate has the
\* declared totals and the item sums exactly when the document has a totals
\* block.
C19_AsStated ==
  (pc = "done" /\ PastGate) =>
    /\ out.meta.totals.defined <=> Truthy(RefTotals)
    /\ out.meta.sums.defined <=> Truthy(RefTotals)

\* C19 amended: the meta of every report past the structural gate, with or
\* without a totals block, has the six declared totals (each absent when the
\* block does not declare it) and the five rounded item sums; the meta of
\* the reports that stop at the input, the parse or the missing root has
\* neither.
C19_MetaTotalsAndSums ==
  pc = "done" =>
    IF PastGate
    THEN /\ out.meta.totals.defined
         /\ out.meta.sums.defined
         /\ \A field \in {"vProd", "vDesc", "vFrete", "vSeg", "vOutro"} :
              out.meta.sums[field] = RefSum(field)
         /\ \A field \in {"vProd", "vDesc", "vFrete", "vSeg", "vOutro", "vNF"} :
              out.meta.totals[field] =
                (IF Truthy(RefTotals) THEN RefDeclared(field) ELSE Null)
    ELSE ~out.meta.totals.defined /\ ~out.meta.sums.defined

\* A report past the gate for a document without a totals block, with the
\* item sums in its meta and none of the declared totals.
C19_Witness ==
  /\ pc = "done"
  /\ PastGate
  /\ ~Truthy(RefTotals)
  /\ out.meta.totals.defined
  /\ out.meta.totals.vProd = Null
  /\ out.meta.sums.defined
  /\ out.meta.sums.vProd > 0

\* The places in the report of the findings with the code about item k
\* (counted from 1).
ItemPlaces(code, k) ==
  {i \in PlacesOf({code}) : out.findings[i].index = k - 1}

\* Item k has exactly one finding with the code, of the severity and naming
\* k, when its value at field is a number <= 0, and none otherwise.
NonPositiveRule(k, field, code, severity) ==
  LET n == toNumber(GetAt(RefItems[k], <<"prod", field>>))
  IN  IF ~n.isNull /\ n.v <= 0
      THEN /\ Cardinality(ItemPlaces(code, k)) = 1
           /\ \A i \in ItemPlaces(code, k) :
                out.findings[i].severity = severity /\ out.findings[i].args = <<k>>
      ELSE ItemPlaces(code, k) = {}

\* C20: in every report past the structural gate, each item has exactly one
\* error ITEM_QCOM_ZERO when its quantity is a number <= 0 and exactly one
\* warning ITEM_VUN_ZERO when its unit price is a number <= 0, whatever the
\* other items and rules give, and neither for a positive, absent or
\* non-numeric value; the finding names the item by its index counted from 1.
C20_NonPositiveQuantityAndPrice ==
  (pc = "done" /\ PastGate) =>
    /\ \A k \in 1 .. Len(RefItems) :
         /\ NonPositiveRule(k, "qCom", "ITEM_QCOM_ZERO", "error")
         /\ NonPositiveRule(k, "vUnCom", "ITEM_VUN_ZERO", "warning")
    /\ \A i \in PlacesOf({"ITEM_QCOM_ZERO", "ITEM_VUN_ZERO"}) :
         out.findings[i].index + 1 \in 1 .. Len(RefItems)

\* A report with the error for the second of two items, whose quantity is
\* the text -0,5, and none for the first, whose quantity is positive.
C20_Witness ==
  /\ pc = "done"
  /\ PastGate
  /\ Len(RefItems) = 2
  /\ GetAt(RefItems[2], <<"prod", "qCom">>) = Str(<<"-", "0", ",", "5">>)
  /\ ItemPlaces("ITEM_QCOM_ZERO", 1) = {}
  /\ \E i \in ItemPlaces("ITEM_QCOM_ZERO", 2) : out.findings[i].args = <<2>>


\* The fiscal operation code of item k (counted from 1) as a text.
CfopText(k) == Trim(StringOf(GetAt(RefItems[k], <<"prod", "CFOP">>)))

\* The text starts with one of the digits.
LeadIn(text, digits) == text # <<>> /\ text[1] \in digits

\* The text starts with two digits.
TwoDigits(text) == Len(text) >= 2 /\ text[1] \in DigitChars /\ text[2] \in DigitChars

\* The fiscal-operation rule for item k: exactly one warning CFOP_MISSING
\* and no CFOP_UF_MISMATCH when the code is absent; otherwise no CFOP_MISSING
\* and exactly one warning CFOP_UF_MISMATCH when crossed holds, none when it
\* does not.
CfopRule(k, absent, crossed) ==
  LET missing == ItemPlaces("CFOP_MISSING", k)
      mismatch == ItemPlaces("CFOP_UF_MISMATCH", k)
  IN  /\ \A i \in missing \cup mismatch : out.findings[i].severity = "warning"
      /\ IF absent THEN Cardinality(missing) = 1 /\ mismatch = {}
         ELSE /\ missing = {}
              /\ Cardinality(mismatch) = (IF crossed THEN 1 ELSE 0)

\* Both jurisdictions are known, and they are equal with the code starting
\* with one of the interstate digits or differ with it starting with one of
\* the internal digits.
Crossed(ufEmit, ufDest, text) ==
  /\ ufEmit # <<>>
  /\ ufDest # <<>>
  /\ \/ ufEmit = ufDest /\ LeadIn(text, {"2", "6"})
     \/ ufEmit # ufDest /\ LeadIn(text, {"1", "5"})

WellFormedSingleItem ==
  /\ PastGate
  /\ Len(RefItems) = 1
  /\ LET qCom == toNumber(GetAt(RefItems[1], <<"prod", "qCom">>))
     IN  ~qCom.isNull /\ qCom.v > 0
  /\ Truthy(GetAt(RefInfNFe, <<"ide">>))
  /\ RefEmit.t = "obj"
  /\ Truthy(RefDocOf(RefEmit))
  /\ RefDocValid(RefDocOf(RefEmit))
  /\ RefAccessKey.t = "str"
  /\ Len(RefAccessKey.s) = 44
  /\ DigitValue[RefAccessKey.s[44]] = RefKeyDV(SubSeq(RefAccessKey.s, 1, 43))
  /\ LET vProd == toNumber(GetAt(RefItems[1], <<"prod", "vProd">>))
     IN  ~vProd.isNull /\ RefDeclared("vProd") = vProd

\* C22: the audit of a well-formed single-item document with a matching
\* product total and valid identifiers returns a report with ok = true, no
\* error finding and at least one info finding; the audit of a document
\* without an informational root returns a report with exactly one error
\* finding and ok = false.
C22_EndToEnd ==
  Called =>
    /\ WellFormedSingleItem =>
         /\ pc = "done"
         /\ out.ok
         /\ out.summary.errors = 0
         /\ RefCount(out.findings, "error") = 0
         /\ RefCount(out.findings, "info") >= 1
    /\ NoRoot =>
         /\ pc = "done"
         /\ ~out.ok
         /\ RefCount(out.findings, "error") = 1

\* A report with ok = true for a well-formed single-item document that has
\* no recipient block and whose item states no fiscal codes: warnings only.
C22_Witness ==
  /\ pc = "done"
  /\ WellFormedSingleItem
  /\ ~Truthy(RefDest)
  /\ out.ok
  /\ out.summary.warnings > 0
  /\ PlacesOf({"DEST_MISSING"}) # {}

(***************************************************************************)
(* The endpoint and the batch mode.                                        *)
(***************************************************************************)
\* A synthetic server-error report: ok false, one error, no items, and the
\* single finding SERVER_ERROR of severity error.
IsServerError(body) ==
  /\ ~body.ok
  /\ body.summary = [errors |-> 1, warnings |-> 0, infos |-> 0]
  /\ body.meta.itemsCount = 0
  /\ Len(body.findings) = 1
  /\ body.findings[1].code = "SERVER_ERROR"
  /\ body.findings[1].severity = "error"

\* C24: the endpoint answers every request with a report: status 200 and
\* the report of auditXml whenever auditXml returns one, also one with ok
\* false; status 500 and the synthetic report with the single error
\* SERVER_ERROR exactly when the body is not JSON or auditXml throws.
C24_EndpointAnswers ==
  pc = "responded" =>
    /\ response.status \in {200, 500}
    /\ DOMAIN response.body = {"ok", "meta", "summary", "findings"}
    /\ response.status = 500 <=> (input = NotJson \/ auditXml(input).threw)
    /\ response.status = 500 => IsServerError(response.body)
    /\ response.status = 200 =>
         /\ response.body = auditXml(input).report
         /\ \A k \in 1 .. Len(response.body.findings) :
              response.body.findings[k].code # "SERVER_ERROR"

\* A response with status 500 to a JSON body on which auditXml throws.
C24_Witness ==
  /\ pc = "responded"
  /\ input # NotJson
  /\ IsDocument(input)
  /\ response.status = 500
  /\ IsServerError(response.body)

\* What the endpoint answers for the file alone.
AloneBody(file) == POST(ObjInput(file.xml)).body

\* Row j is the row of file j and of no other: its name and size, and its
\* result, if it has one, is the answer for that file alone.
OwnRow(j) ==
  /\ batchRows[j].fileName = batchFiles[j].name
  /\ batchRows[j].size = batchFiles[j].size
  /\ batchRows[j].result =
       (IF batchRows[j].hasResult THEN AloneBody(batchFiles[j]) ELSE NoReport)

\* There is one row per file, in the order of the files, each its own.
RowsAttributed ==
  /\ Len(batchRows) = Len(batchFiles)
  /\ \A j \in 1 .. Len(batchRows) : OwnRow(j)

\* A step of a running batch writes no row but that of the file it is at,
\* the one after the files done.
WritesOwnRowOnly ==
  batchLoading =>
    /\ Len(batchRows') = Len(batchRows)
    /\ \A j \in 1 .. Len(batchRows) :
         batchRows'[j] # batchRows[j] => j = batchProgress.done + 1

\* C23: a batch of N files has N rows in the order of the files, each with
\* the name of its file and, once processed, the result for that file alone
\* or the error; processing a file writes only its row, so that a parse
\* failure, a server failure or a transport failure for one file leaves
\* the result and the error of every other row as they were.
C23_BatchIndependence == []RowsAttributed /\ [][WritesOwnRowOnly]_vars

\* A finished batch of three files, the same invoice first and last, whose
\* second file failed in transport and whose other rows have the report
\* with ok = true.
C23_Witness ==
  /\ ~batchLoading
  /\ Len(batchRows) = 3
  /\ batchProgress.done = 3
  /\ batchFiles[1] = batchFiles[3]
  /\ batchRows[1].hasResult /\ batchRows[1].result.ok
  /\ batchRows[2].hasError /\ ~batchRows[2].hasResult
  /\ batchRows[3] = batchRows[1]

\* Row j has been processed.
Filled(j) == batchRows[j].hasResult \/ batchRows[j].hasError

\* The rows processed are the first done rows, each with a result or an
\* error and not both; done is within 0 .. total, total is the number of
\* files, and one file at most is in progress.
ProgressInv ==
  /\ batchProgress.done \in 0 .. batchProgress.total
  /\ batchProgress.total = Len(batchFiles)
  /\ Len(batchRows) = Len(batchFiles)
  /\ \A j \in 1 .. Len(batchRows) :
       /\ Filled(j) <=> j <= batchProgress.done
       /\ ~(batchRows[j].hasResult /\ batchRows[j].hasError)
  /\ batchLoading <=> bpc # "idle"
  /\ batchLoading => (done = batchProgress.done /\ fileI = done /\ Len(arr) >= 1)
  /\ ~batchLoading => batchProgress.done \in {0, batchProgress.total}

\* While a batch runs, done grows by one exactly in the steps that end the
\* processing of a file, with a result or with an error, and is otherwise
\* unchanged.
ProgressStep ==
  batchLoading =>
    /\ batchProgress'.total = batchProgress.total
    /\ batchProgress'.done =
         (IF batchRows' # batchRows THEN batchProgress.done + 1 ELSE batchProgress.done)

\* The batch has ended: every file is done and every row has a result or
\* an error.
BatchEnded ==
  /\ ~batchLoading
  /\ batchProgress.total >= 1
  /\ batchProgress.done = batchProgress.total
  /\ \A j \in 1 .. Len(batchRows) : batchRows[j].hasResult # batchRows[j].hasError

\* C30: a batch over N >= 1 files processes them one at a time in index
\* order: done starts at 0, grows by exactly 1 after each file, processed
\* with a result or with an error, 0 <= done <= total = N holds in every
\* state, and, every await settling, the batch ends with done = N,
\* batchLoading false and each row holding a result or an error, never
\* both and never neither.
C30_BatchTerminates ==
  /\ []ProgressInv
  /\ [][ProgressStep]_vars
  /\ [][(~batchLoading /\ batchLoading') => batchProgress'.done = 0]_vars
  /\ batchLoading ~> BatchEnded

\* A finished batch of three files with a result and two errors.
C30_Witness ==
  /\ BatchEnded
  /\ batchProgress = [done |-> 3, total |-> 3]
  /\ batchRows[1].hasError
  /\ batchRows[2].hasResult
  /\ batchRows[3].hasError

(***************************************************************************)
(* The access key: extraction and the findings about it.                   *)
(***************************************************************************)
\* The Id attribute of the informational root as a trimmed text.
RefIdText == Trim(safeString(GetAt(RefInfNFe, <<"@_Id">>)))

\* The positions of the text where NFe stands followed by 44 digits.
RefIdMatches ==
  {p \in 1 .. Len(RefIdText) - 46 :
     /\ SubSeq(RefIdText, p, p + 2) = <<"N", "F", "e">>
     /\ \A q \in p + 3 .. p + 46 : RefIdText[q] \in DigitChars}

\* The 44 digits after the first NFe that is followed by 44 digits.
RefIdKey ==
  LET p == CHOOSE p \in RefIdMatches : \A q \in RefIdMatches : p <= q
  IN  Str(SubSeq(RefIdText, p + 3, p + 46))

\* The digits of the key field of the protocol block.
RefProtocolDigits ==
  SelectSeq(safeString(GetAt(input.xml.tree, <<"nfeProc", "protNFe", "infProt", "chNFe">>)),
            LAMBDA c : c \in DigitChars)

\* C25: the access key of the report of a document is the 44 digits that
\* follow NFe in the Id attribute of the informational root when there are
\* such, whatever the protocol block holds; otherwise the first 44 digits
\* of the key field of the protocol block; and it is absent when neither
\* gives a digit.  A key that is present is a text of 1 to 44 digits.
C25_KeyExtraction ==
  (pc = "done" /\ IsDocument(input)) =>
    /\ out.meta.accessKey =
         (IF RefIdMatches # {} THEN RefIdKey
          ELSE IF RefProtocolDigits = <<>> THEN Undef
          ELSE Str(SubSeq(RefProtocolDigits, 1,
                          IF Len(RefProtocolDigits) < 44 THEN Len(RefProtocolDigits) ELSE 44)))
    /\ out.meta.accessKey.t \in {"undef", "str"}
    /\ out.meta.accessKey.t = "str" =>
         /\ Len(out.meta.accessKey.s) \in 1 .. 44
         /\ IsDigitString(out.meta.accessKey.s)

\* A report whose key is that of the Id attribute, the protocol block
\* holding another key of 44 digits.
C25_Witness ==
  /\ pc = "done"
  /\ PastGate
  /\ RefIdMatches # {}
  /\ Len(RefProtocolDigits) = 44
  /\ Str(RefProtocolDigits) # RefIdKey
  /\ out.meta.accessKey = RefIdKey

\* The Id attribute is NFe followed by exactly 40 digits.
IdHas40 ==
  /\ Len(RefIdText) = 43
  /\ SubSeq(RefIdText, 1, 3) = <<"N", "F", "e">>
  /\ \A q \in 4 .. 43 : RefIdText[q] \in DigitChars

\* The key findings of the report are the warning ACCESS_KEY_LEN with 40
\* digits alone.
LenWarning40 ==
  /\ Len(KeyFindings) = 1
  /\ KeyFindings[1].code = "ACCESS_KEY_LEN"
  /\ KeyFindings[1].severity = "warning"
  /\ KeyFindings[1].args = <<40>>

\* C26 as stated: a key of 40 digits in the Id attribute or in the protocol
\* block gets the length warning.
C26_AsStated ==
  (pc = "done" /\ PastGate) =>
    ((IdHas40 \/ (RefIdMatches = {} /\ Len(RefProtocolDigits) = 40)) =>
       /\ LenWarning40
       /\ PlacesOf({"ACCESS_KEY_DV_MISMATCH"}) = {})

\* C26: past the structural gate, a key of 40 digits in the key field of
\* the protocol block, the Id attribute giving no key, gets the warning
\* ACCESS_KEY_LEN reporting 40 digits and no ACCESS_KEY_DV_MISMATCH.  An Id
\* attribute of NFe and 40 digits gives no key: the key is then that of the
\* protocol block, and without one the only key finding is the warning
\* ACCESS_KEY_NOT_FOUND.
C26_TruncatedProtocolKey ==
  (pc = "done" /\ PastGate) =>
    /\ (RefIdMatches = {} /\ Len(RefProtocolDigits) = 40) =>
         /\ LenWarning40
         /\ PlacesOf({"ACCESS_KEY_DV_MISMATCH"}) = {}
    /\ IdHas40 =>
         /\ RefIdMatches = {}
         /\ RefProtocolDigits = <<>> =>
              /\ Len(KeyFindings) = 1
              /\ KeyFindings[1].code = "ACCESS_KEY_NOT_FOUND"
              /\ KeyFindings[1].severity = "warning"
         /\ Len(RefProtocolDigits) = 44 =>
              PlacesOf({"ACCESS_KEY_LEN", "ACCESS_KEY_NOT_FOUND"}) = {}

\* A report with the length warning for a protocol key of 40 digits.
C26_Witness ==
  /\ pc = "done"
  /\ PastGate
  /\ RefIdMatches = {}
  /\ Len(RefProtocolDigits) = 40
  /\ LenWarning40

\* C27: no report has the warning ACCESS_KEY_DV_UNKNOWN: the check digit is
\* computed for keys of 44 digits only, and for those it is a digit, so the
\* key finding of a key of 44 digits is ACCESS_KEY_OK or
\* ACCESS_KEY_DV_MISMATCH.
C27_DvUnknownUnreachable ==
  pc = "done" =>
    /\ PlacesOf({"ACCESS_KEY_DV_UNKNOWN"}) = {}
    /\ (PastGate /\ out.meta.accessKey.t = "str" /\ Len(out.meta.accessKey.s) = 44) =>
         /\ ~calcNfeKeyDV(out.meta.accessKey.s).isNull
         /\ Len(KeyFindings) = 1
         /\ KeyFindings[1].code \in {"ACCESS_KEY_OK", "ACCESS_KEY_DV_MISMATCH"}

\* A report for a key of 44 digits taken out of a protocol key field with
\* other characters in it, with the info ACCESS_KEY_OK.
C27_Witness ==
  /\ pc = "done"
  /\ PastGate
  /\ RefIdMatches = {}
  /\ Len(RefProtocolDigits) > 44
  /\ ~IsDigitString(safeString(GetAt(input.xml.tree,
                                     <<"nfeProc", "protNFe", "infProt", "chNFe">>)))
  /\ PlacesOf({"ACCESS_KEY_OK"}) # {}

(***************************************************************************)
(* Missing blocks, and the severities of the codes.                        *)
(***************************************************************************)
\* C28: in every report of the full pass there is exactly one finding about
\* the issuer identifier (EMIT_DOC_OK, EMIT_DOC_INVALID or EMIT_DOC_MISSING).
\* Without an issuer block the report has the error EMIT_MISSING and the
\* warnings EMIT_DOC_MISSING and EMIT_UF_MISSING; without a recipient block
\* it has the warning DEST_MISSING and no other finding about the
\* recipient: no DEST_DOC_MISSING, DEST_DOC_INVALID, DEST_DOC_OK,
\* DEST_UF_MISSING or DEST_CEP_INVALID.
C28_MissingBlocks ==
  (pc = "done" /\ PastGate) =>
    /\ Cardinality(PlacesOf({"EMIT_DOC_OK", "EMIT_DOC_INVALID", "EMIT_DOC_MISSING"})) = 1
    /\ OneIff(~Truthy(RefEmit), "EMIT_MISSING", "error")
    /\ ~Truthy(RefEmit) =>
         /\ OneIff(TRUE, "EMIT_DOC_MISSING", "warning")
         /\ OneIff(TRUE, "EMIT_UF_MISSING", "warning")
    /\ OneIff(~Truthy(RefDest), "DEST_MISSING", "warning")
    /\ ~Truthy(RefDest) => PlacesOf(RecipientCodes \ {"DEST_MISSING"}) = {}

\* A report for a document with neither block: the three findings about
\* the missing issuer, and DEST_MISSING as the only one about the recipient.
C28_Witness ==
  /\ pc = "done"
  /\ PastGate
  /\ ~Truthy(RefEmit)
  /\ ~Truthy(RefDest)
  /\ PlacesOf({"EMIT_MISSING"}) # {}
  /\ PlacesOf({"EMIT_DOC_MISSING"}) # {}
  /\ PlacesOf({"EMIT_UF_MISSING"}) # {}
  /\ Cardinality(PlacesOf(RecipientCodes)) = 1

\* The codes of the findings by severity.
ErrorCodes ==
  {"INPUT_INVALID", "XML_PARSE_ERROR", "INFNFE_MISSING", "ITEMS_EMPTY",
   "ACCESS_KEY_DV_MISMATCH", "IDE_MISSING", "EMIT_MISSING", "EMIT_DOC_INVALID",
   "TOTAL_VPROD_MISMATCH", "ITEM_QCOM_ZERO"}
InfoCodes ==
  {"ACCESS_KEY_OK", "EMIT_DOC_OK", "DEST_DOC_OK", "TOTAL_VPROD_OK", "TOTAL_VDESC_OK",
   "TOTAL_VNF_OK"}
WarningCodes ==
  {"ACCESS_KEY_NOT_FOUND", "ACCESS_KEY_LEN", "ACCESS_KEY_DV_UNKNOWN", "DEST_MISSING",
   "EMIT_DOC_MISSING", "DEST_DOC_INVALID", "DEST_DOC_MISSING", "EMIT_UF_MISSING",
   "DEST_UF_MISSING", "EMIT_CEP_INVALID", "DEST_CEP_INVALID", "TOTALS_MISSING",
   "ITEM_VPROD_MISSING", "TOTAL_VDESC_MISMATCH", "TOTAL_VFRETE_MISMATCH",
   "TOTAL_VSEG_MISMATCH", "TOTAL_VOUTRO_MISMATCH", "TOTAL_VNF_SUSPECT", "ITEM_VUN_ZERO",
   "CFOP_UF_MISMATCH", "CFOP_MISSING", "NCM_MISSING", "NCM_INVALID_LEN"}

\* The one severity of a code.
SeverityOf(code) ==
  IF code \in ErrorCodes THEN "error" ELSE IF code \in InfoCodes THEN "info" ELSE "warning"

\* C29: every finding of every report has the severity fixed for its code:
\* error for the ten codes of ErrorCodes and for no other, info for the six
\* codes of InfoCodes, warning for the others; so ok is false exactly when
\* a code of ErrorCodes occurs among the findings.
C29_SeverityByCode ==
  pc = "done" =>
    /\ \A k \in 1 .. Len(out.findings) :
         /\ out.findings[k].code \in ErrorCodes \cup InfoCodes \cup WarningCodes
         /\ out.findings[k].severity = SeverityOf(out.findings[k].code)
    /\ ~out.ok <=> PlacesOf(ErrorCodes) # {}

\* A report with ok false for an invalid issuer identifier as its only
\* error, among warnings and infos.
C29_Witness ==
  /\ pc = "done"
  /\ PastGate
  /\ ~out.ok
  /\ out.summary.errors = 1
  /\ PlacesOf({"EMIT_DOC_INVALID"}) # {}
  /\ out.summary.warnings > 0
  /\ out.summary.infos > 0

====
